---------------------------- MODULE Spec2Model ----------------------------
(***************************************************************************)
(* A model of awspricingfull.py: the feed repair of AWSPrices.load_data,   *)
(* the price token parser, the eight normalizer operations of EC2Prices,   *)
(* ELCPrices, RDSPrices and RSPrices, and AllAWSPrices.return_json.        *)
(*                                                                         *)
(* A feed text is a sequence of one-character strings.  A parsed JSON      *)
(* value is a record [t, v]: t is "obj" (v a function from key strings to  *)
(* values), "arr" (v a sequence of values), "str" (v the characters),      *)
(* "num" (v the characters of the literal) or "lit" (v the characters of   *)
(* true, false or null).  A Python float is modelled as an exact rational  *)
(* [null, n, d] in lowest terms; Python's None is the value Null.          *)
(***************************************************************************)
EXTENDS Integers, Sequences, FiniteSets, TLC

VARIABLES
    site,                  \* what the pricing site ordinarily answers
    call,                  \* the call made: [cls, u], return_json(u) on a class
    pc,                    \* where the call stands
    pending,               \* normalizer calls return_json has still to make
    docs,                  \* what the normalizers called have returned
    service,               \* the normalizer running
    operation,             \* "ondemand" or "reserved"
    urls,                  \* the feeds its loops have still to visit
    data,                  \* what load_data returned for the feed at hand
    result_regions,        \* the list result["regions"]
    result_regions_index,  \* region name to the position of its entry
    outcome,               \* "none", "returned" or "raised"
    error,                 \* the exception raised
    retval,                \* the value returned to the caller
    fetched,               \* history: the feeds fetched and the answers
    odd,                   \* history: how many answers were not ordinary
    token,                 \* a price token handed to the parser
    price,                 \* what the parser gave for it
    previous,              \* history: the calls made before on the instance
    file                   \* the rows written to the CSV file

-----------------------------------------------------------------------------
(* Characters and strings *)

Digits == {"0", "1", "2", "3", "4", "5", "6", "7", "8", "9"}

Letters ==
    {"a", "b", "c", "d", "e", "f", "g", "h", "i", "j", "k", "l", "m",
     "n", "o", "p", "q", "r", "s", "t", "u", "v", "w", "x", "y", "z",
     "A", "B", "C", "D", "E", "F", "G", "H", "I", "J", "K", "L", "M",
     "N", "O", "P", "Q", "R", "S", "T", "U", "V", "W", "X", "Y", "Z"}

\* the character class [a-zA-Z0-9]
IsAlnum(c) == c \in Letters \cup Digits

\* the NUL byte, which the comment pattern excludes
NUL == "NUL"

\* the string written by a sequence of characters
RECURSIVE Str(_)
Str(cs) == IF cs = <<>> THEN "" ELSE Head(cs) \o Str(Tail(cs))

\* the concatenation of pieces[lo..hi]
RECURSIVE Flatten(_, _, _)
Flatten(pieces, lo, hi) ==
    IF lo > hi THEN <<>>
    ELSE IF lo = hi THEN pieces[lo]
    ELSE LET mid == (lo + hi) \div 2
         IN  Flatten(pieces, lo, mid) \o Flatten(pieces, mid + 1, hi)

\* f[i..i+Len(w)-1] = w
MatchAt(f, i, w) ==
    /\ i >= 1
    /\ i + Len(w) - 1 <= Len(f)
    /\ \A k \in 1..Len(w) : f[i + k - 1] = w[k]

-----------------------------------------------------------------------------
(* AWSPrices.load_data: the five rewrites and the JSON parse *)

\* the end index of the leftmost-longest match of /\*[^\x00]+\*/ starting
\* at i, or 0: the pattern is greedy, so the match runs to the LAST "*/"
\* that no NUL byte separates from the opening
CommentEnd(f, i) ==
    IF ~MatchAt(f, i, <<"/", "*">>) THEN 0
    ELSE LET ends == {j \in (i + 3)..(Len(f) - 1) :
                         /\ MatchAt(f, j, <<"*", "/">>)
                         /\ \A k \in (i + 2)..(j - 1) : f[k] # NUL}
         IN  IF ends = {} THEN 0
             ELSE (CHOOSE j \in ends : \A k \in ends : k <= j) + 1

\* re.sub("/\\*[^\x00]+\\*/", "", f, 0, re.M)
RECURSIVE strip_comments(_)
strip_comments(f) ==
    LET starts == {i \in 1..Len(f) : CommentEnd(f, i) > 0}
    IN  IF starts = {} THEN f
        ELSE LET i == CHOOSE s \in starts : \A k \in starts : s <= k
                 e == CommentEnd(f, i)
             IN  SubSeq(f, 1, i - 1) \o strip_comments(SubSeq(f, e + 1, Len(f)))

\* the last index of the maximal alphanumeric run that holds index i
RunEnd(f, i) ==
    CHOOSE j \in i..Len(f) :
        /\ \A k \in i..j : IsAlnum(f[k])
        /\ (j = Len(f) \/ ~IsAlnum(f[j + 1]))

\* quote_keys that leaves the keys bare
quote_keys_none(f) == f

\* re.sub("([a-zA-Z0-9]+):", "\"\\1\":", f): every maximal alphanumeric run
\* that a colon follows is wrapped in double quotes, inside strings too
quote_keys(f) ==
    LET pieces == [i \in 1..Len(f) |->
            IF /\ IsAlnum(f[i])
               /\ (i = 1 \/ ~IsAlnum(f[i - 1]))
               /\ RunEnd(f, i) < Len(f)
               /\ f[RunEnd(f, i) + 1] = ":"
            THEN <<"\"", f[i]>>
            ELSE IF f[i] = ":" /\ i > 1 /\ IsAlnum(f[i - 1])
            THEN <<"\"", ":">>
            ELSE <<f[i]>>]
    IN  Flatten(pieces, 1, Len(f))

\* re.sub(";", "\n", f)
semicolons_to_newlines(f) ==
    [i \in 1..Len(f) |-> IF f[i] = ";" THEN "\n" ELSE f[i]]

CallbackOpen == <<"c", "a", "l", "l", "b", "a", "c", "k", "(">>

\* re.sub("callback\(", "", f)
strip_callback(f) ==
    LET covered(i) == \E s \in 1..i : s + Len(CallbackOpen) > i
                                      /\ MatchAt(f, s, CallbackOpen)
    IN  SelectSeq([i \in 1..Len(f) |-> IF covered(i) THEN NUL \o "cut" ELSE f[i]],
                  LAMBDA c : c # NUL \o "cut")

\* re.sub("\)$", "", f): $ matches at the end of the text and before a
\* newline that ends the text
strip_closing_paren(f) ==
    LET n == Len(f)
    IN  IF n >= 1 /\ f[n] = ")" THEN SubSeq(f, 1, n - 1)
        ELSE IF n >= 2 /\ f[n] = "\n" /\ f[n - 1] = ")"
        THEN SubSeq(f, 1, n - 2) \o <<"\n">>
        ELSE f

\* lines 123-127 in order
repair(f) ==
    strip_closing_paren(strip_callback(semicolons_to_newlines(
        quote_keys(strip_comments(f)))))

Whitespace == {" ", "\n", "\t", "\r"}

\* the first index at or after i that holds no whitespace (Len(f)+1: none)
SkipWS(f, i) ==
    CHOOSE j \in i..(Len(f) + 1) :
        /\ \A k \in i..(j - 1) : f[k] \in Whitespace
        /\ (j = Len(f) + 1 \/ f[j] \notin Whitespace)

NumberChars == Digits \cup {"-", "+", ".", "e", "E"}

\* the last index of the run of characters of set S that starts at i
SpanEnd(f, i, S) ==
    CHOOSE j \in i..Len(f) :
        /\ \A k \in i..j : f[k] \in S
        /\ (j = Len(f) \/ f[j + 1] \notin S)

ParseFail == [ok |-> FALSE]

ParseOk(val, next) == [ok |-> TRUE, val |-> val, next |-> next]

JStr(cs) == [t |-> "str", v |-> cs]

\* a string literal whose opening quote is at i: no escapes are modelled,
\* and a control character inside a string is refused as json does
ParseString(f, i) ==
    LET closes == {j \in (i + 1)..Len(f) : f[j] = "\""}
    IN  IF closes = {} THEN ParseFail
        ELSE LET j  == CHOOSE c \in closes : \A k \in closes : c <= k
                 cs == SubSeq(f, i + 1, j - 1)
             IN  IF \E k \in 1..Len(cs) : cs[k] \in {"\n", "\t", "\r", "\\"}
                 THEN ParseFail
                 ELSE ParseOk(JStr(cs), j + 1)

RECURSIVE ParseValue(_, _)
RECURSIVE ParseMembers(_, _, _)
RECURSIVE ParseElements(_, _, _)

\* json's value at the first non-blank index at or after i0
ParseValue(f, i0) ==
    LET i == SkipWS(f, i0)
    IN  IF i > Len(f) THEN ParseFail
        ELSE IF f[i] = "{" THEN
            LET j == SkipWS(f, i + 1)
            IN  IF j <= Len(f) /\ f[j] = "}"
                THEN ParseOk([t |-> "obj", v |-> <<>>], j + 1)
                ELSE ParseMembers(f, j, <<>>)
        ELSE IF f[i] = "[" THEN
            LET j == SkipWS(f, i + 1)
            IN  IF j <= Len(f) /\ f[j] = "]"
                THEN ParseOk([t |-> "arr", v |-> <<>>], j + 1)
                ELSE ParseElements(f, j, <<>>)
        ELSE IF f[i] = "\"" THEN ParseString(f, i)
        ELSE IF f[i] \in Digits \cup {"-"} THEN
            LET j == SpanEnd(f, i, NumberChars)
            IN  ParseOk([t |-> "num", v |-> SubSeq(f, i, j)], j + 1)
        ELSE IF MatchAt(f, i, <<"t", "r", "u", "e">>)
            THEN ParseOk([t |-> "lit", v |-> <<"t", "r", "u", "e">>], i + 4)
        ELSE IF MatchAt(f, i, <<"f", "a", "l", "s", "e">>)
            THEN ParseOk([t |-> "lit", v |-> <<"f", "a", "l", "s", "e">>], i + 5)
        ELSE IF MatchAt(f, i, <<"n", "u", "l", "l">>)
            THEN ParseOk([t |-> "lit", v |-> <<"n", "u", "l", "l">>], i + 4)
        ELSE ParseFail

\* the members of an object from index i on: acc holds those read so far,
\* and a repeated key keeps its last value
ParseMembers(f, i, acc) ==
    IF i > Len(f) \/ f[i] # "\"" THEN ParseFail
    ELSE LET k == ParseString(f, i)
         IN  IF ~k.ok THEN ParseFail
             ELSE LET c == SkipWS(f, k.next)
                  IN  IF c > Len(f) \/ f[c] # ":" THEN ParseFail
                      ELSE LET val == ParseValue(f, c + 1)
                           IN  IF ~val.ok THEN ParseFail
                               ELSE LET e    == SkipWS(f, val.next)
                                        acc2 == (Str(k.val.v) :> val.val) @@ acc
                                    IN  IF e > Len(f) THEN ParseFail
                                        ELSE IF f[e] = "}"
                                            THEN ParseOk([t |-> "obj", v |-> acc2], e + 1)
                                        ELSE IF f[e] = ","
                                            THEN ParseMembers(f, SkipWS(f, e + 1), acc2)
                                        ELSE ParseFail

\* the elements of an array from index i on
ParseElements(f, i, acc) ==
    LET val == ParseValue(f, i)
    IN  IF ~val.ok THEN ParseFail
        ELSE LET e    == SkipWS(f, val.next)
                 acc2 == Append(acc, val.val)
             IN  IF e > Len(f) THEN ParseFail
                 ELSE IF f[e] = "]" THEN ParseOk([t |-> "arr", v |-> acc2], e + 1)
                 ELSE IF f[e] = "," THEN ParseElements(f, e + 1, acc2)
                 ELSE ParseFail

\* json.loads(f): one value, then nothing but whitespace
json_loads(f) ==
    LET r == ParseValue(f, 1)
    IN  IF r.ok /\ SkipWS(f, r.next) = Len(f) + 1 THEN r ELSE ParseFail

\* load_data on a fetched text: [ok |-> FALSE] when json.loads raises
load_data(f) == json_loads(repair(f))

-----------------------------------------------------------------------------
(* Python values: floats as exact rationals, None as Null *)

Null == [null |-> TRUE, n |-> 0, d |-> 1]

RECURSIVE GCD(_, _)
GCD(a, b) == IF b = 0 THEN a ELSE GCD(b, a % b)

\* the float n/d, in lowest terms
Rat(n, d) ==
    LET g == GCD(n, d)
    IN  [null |-> FALSE, n |-> n \div g, d |-> d \div g]

RECURSIVE Pow10(_)
Pow10(k) == IF k = 0 THEN 1 ELSE 10 * Pow10(k - 1)

DigitValue ==
    ("0" :> 0) @@ ("1" :> 1) @@ ("2" :> 2) @@ ("3" :> 3) @@ ("4" :> 4) @@
    ("5" :> 5) @@ ("6" :> 6) @@ ("7" :> 7) @@ ("8" :> 8) @@ ("9" :> 9)

\* the integer written by a sequence of digits (0 for none)
RECURSIVE ToInt(_)
ToInt(ds) ==
    IF ds = <<>> THEN 0
    ELSE 10 * ToInt(SubSeq(ds, 1, Len(ds) - 1)) + DigitValue[ds[Len(ds)]]

-----------------------------------------------------------------------------
(* The price token parser: float(re.sub("[^0-9\.]", "", token)) under       *)
(* try/except ValueError                                                    *)

\* strip_token that keeps the digits only
strip_token_digits(tok) == SelectSeq(tok, LAMBDA c : c \in Digits)

\* re.sub("[^0-9\.]", "", token)
strip_token(tok) == SelectSeq(tok, LAMBDA c : c \in Digits \cup {"."})

\* float(s) of a text of digits and points: ok is FALSE where float raises
\* ValueError (no digit, or more than one point)
float_of(s) ==
    LET dots   == {i \in 1..Len(s) : s[i] = "."}
        digits == SelectSeq(s, LAMBDA c : c \in Digits)
    IN  IF digits = <<>> \/ Cardinality(dots) > 1
        THEN [ok |-> FALSE, val |-> Null]
        ELSE LET frac == IF dots = {} THEN 0
                         ELSE Len(s) - (CHOOSE i \in dots : TRUE)
             IN  [ok |-> TRUE, val |-> Rat(ToInt(digits), Pow10(frac))]

\* price = None; try: price = float(re.sub(...)); except ValueError: price = None
parse_price(tok) ==
    LET r == float_of(strip_token(tok))
    IN  IF r.ok THEN r.val ELSE Null

\* the hours of a month used for the monthly-to-hourly derivation
HOURS_PER_MONTH == 730

\* per_hour without the division
per_hour_monthly(amount) == amount

\* price/730 of a float
per_hour(amount) == Rat(amount.n, amount.d * HOURS_PER_MONTH)

-----------------------------------------------------------------------------
(* Access to parsed JSON values as Python reads them *)

\* key in d
Has(d, key) == d.t = "obj" /\ key \in DOMAIN d.v

\* the truth value Python gives x
Truthy(x) ==
    CASE x.t = "obj" -> DOMAIN x.v # {}
      [] x.t \in {"arr", "str"} -> Len(x.v) > 0
      [] x.t = "num" -> \E i \in 1..Len(x.v) : x.v[i] \in Digits \ {"0"}
      [] OTHER -> x.v = <<"t", "r", "u", "e">>

\* "config" in data and data["config"] and "regions" in data["config"]
\* and data["config"]["regions"]
has_regions(parsed) ==
    /\ Has(parsed, "config")
    /\ Truthy(parsed.v["config"])
    /\ Has(parsed.v["config"], "regions")
    /\ Truthy(parsed.v["config"].v["regions"])

\* "region" in r and r["region"]
has_region_id(r) == Has(r, "region") /\ Truthy(r.v["region"])

\* the elements a for loop over x visits
Items(x) == IF x.t = "arr" THEN x.v ELSE <<>>

\* a loop over xs that an exception ends: acc.err is "" while none is raised
RECURSIVE FoldErr(_, _, _, _)
FoldErr(Step(_, _), xs, i, acc) ==
    IF acc.err # "" \/ i > Len(xs) THEN acc
    ELSE FoldErr(Step, xs, i + 1, Step(acc, xs[i]))

DEFAULT_CURRENCY == "USD"

\* price_data["prices"][currency] parsed, as every normalizer but the two
\* with a bare except does it: a missing key raises KeyError and a token
\* that is no string raises TypeError, neither caught by except ValueError
price_strict(holder) ==
    IF ~Has(holder, "prices") \/ ~Has(holder.v["prices"], DEFAULT_CURRENCY)
    THEN [err |-> "KeyError", price |-> Null]
    ELSE LET tok == holder.v["prices"].v[DEFAULT_CURRENCY]
         IN  IF tok.t # "str" THEN [err |-> "TypeError", price |-> Null]
             ELSE [err |-> "", price |-> parse_price(tok.v)]

\* the same under a bare except (EC2 and Redshift on-demand): every
\* exception leaves price = None
price_lenient(holder) ==
    LET p == price_strict(holder)
    IN  IF p.err # "" THEN Null ELSE p.price

-----------------------------------------------------------------------------
(* The lookup tables and the URL lists.  A URL is written without the      *)
(* prefix "http://a0.awsstatic.com/pricing/1/" and the suffix ".min.js"   *)
(* that all of them share.                                                 *)

REGIONS ==
    <<"us-east-1", "us-west-1", "us-west-2", "eu-west-1",
      "ap-southeast-1", "ap-southeast-2", "ap-northeast-1", "sa-east-1",
      "eu-central-1", "us-gov-west-1">>

\* the table with the old spelling us-east left as it is
JSON_NAME_TO_REGIONS_API_old ==
    ("us-east" :> "us-east") @@
    ("us-east-1" :> "us-east-1") @@
    ("us-west" :> "us-west-1") @@
    ("us-west-1" :> "us-west-1") @@
    ("us-west-2" :> "us-west-2") @@
    ("eu-ireland" :> "eu-west-1") @@
    ("eu-west-1" :> "eu-west-1") @@
    ("apac-sin" :> "ap-southeast-1") @@
    ("ap-southeast-1" :> "ap-southeast-1") @@
    ("ap-southeast-2" :> "ap-southeast-2") @@
    ("apac-syd" :> "ap-southeast-2") @@
    ("apac-tokyo" :> "ap-northeast-1") @@
    ("ap-northeast-1" :> "ap-northeast-1") @@
    ("sa-east-1" :> "sa-east-1") @@
    ("eu-central-1" :> "eu-central-1") @@
    ("us-gov-west-1" :> "us-gov-west-1") @@
    ("eu-frankfurt" :> "eu-central-1")

JSON_NAME_TO_REGIONS_API ==
    ("us-east" :> "us-east-1") @@
    ("us-east-1" :> "us-east-1") @@
    ("us-west" :> "us-west-1") @@
    ("us-west-1" :> "us-west-1") @@
    ("us-west-2" :> "us-west-2") @@
    ("eu-ireland" :> "eu-west-1") @@
    ("eu-west-1" :> "eu-west-1") @@
    ("apac-sin" :> "ap-southeast-1") @@
    ("ap-southeast-1" :> "ap-southeast-1") @@
    ("ap-southeast-2" :> "ap-southeast-2") @@
    ("apac-syd" :> "ap-southeast-2") @@
    ("apac-tokyo" :> "ap-northeast-1") @@
    ("ap-northeast-1" :> "ap-northeast-1") @@
    ("sa-east-1" :> "sa-east-1") @@
    ("eu-central-1" :> "eu-central-1") @@
    ("us-gov-west-1" :> "us-gov-west-1") @@
    ("eu-frankfurt" :> "eu-central-1")

INSTANCES_ONDEMAND_OS_TYPE_BY_URL ==
    ("ec2/linux-od" :> "linux") @@
    ("ec2/rhel-od" :> "rhel") @@
    ("ec2/sles-od" :> "sles") @@
    ("ec2/mswin-od" :> "mswin") @@
    ("ec2/mswinSQL-od" :> "mswinSQL") @@
    ("ec2/mswinSQLWeb-od" :> "mswinSQLWeb") @@
    ("ec2/previous-generation/linux-od" :> "linux") @@
    ("ec2/previous-generation/rhel-od" :> "rhel") @@
    ("ec2/previous-generation/sles-od" :> "sles") @@
    ("ec2/previous-generation/mswin-od" :> "mswin") @@
    ("ec2/previous-generation/mswinSQL-od" :> "mswinSQL") @@
    ("ec2/previous-generation/mswinSQLWeb-od" :> "mswinSQLWeb")

INSTANCES_RESERVED_OS_TYPE_BY_URL ==
    ("ec2/ri-v2/linux-unix-shared" :> "linux") @@
    ("ec2/ri-v2/red-hat-enterprise-linux-shared" :> "rhel") @@
    ("ec2/ri-v2/suse-linux-shared" :> "sles") @@
    ("ec2/ri-v2/windows-shared" :> "mswin") @@
    ("ec2/ri-v2/windows-with-sql-server-standard-shared" :> "mswinSQL") @@
    ("ec2/ri-v2/windows-with-sql-server-web-shared" :> "mswinSQLWeb") @@
    ("ec2/previous-generation/ri-v2/linux-unix-shared" :> "linux") @@
    ("ec2/previous-generation/ri-v2/red-hat-enterprise-linux-shared" :> "rhel") @@
    ("ec2/previous-generation/ri-v2/suse-linux-shared" :> "sles") @@
    ("ec2/previous-generation/ri-v2/windows-shared" :> "mswin") @@
    ("ec2/previous-generation/ri-v2/windows-with-sql-server-standard-shared" :> "mswinSQL") @@
    ("ec2/previous-generation/ri-v2/windows-with-sql-server-web-shared" :> "mswinSQLWeb")

EC2_reserved_urls ==
    <<"ec2/ri-v2/linux-unix-shared",
      "ec2/ri-v2/red-hat-enterprise-linux-shared",
      "ec2/ri-v2/suse-linux-shared",
      "ec2/ri-v2/windows-shared",
      "ec2/ri-v2/windows-with-sql-server-standard-shared",
      "ec2/ri-v2/windows-with-sql-server-web-shared",
      "ec2/previous-generation/ri-v2/linux-unix-shared",
      "ec2/previous-generation/ri-v2/red-hat-enterprise-linux-shared",
      "ec2/previous-generation/ri-v2/suse-linux-shared",
      "ec2/previous-generation/ri-v2/windows-shared",
      "ec2/previous-generation/ri-v2/windows-with-sql-server-standard-shared",
      "ec2/previous-generation/ri-v2/windows-with-sql-server-web-shared">>

EC2_ondemand_urls ==
    <<"ec2/linux-od",
      "ec2/rhel-od",
      "ec2/sles-od",
      "ec2/mswin-od",
      "ec2/mswinSQL-od",
      "ec2/mswinSQLWeb-od",
      "ec2/previous-generation/linux-od",
      "ec2/previous-generation/rhel-od",
      "ec2/previous-generation/sles-od",
      "ec2/previous-generation/mswin-od",
      "ec2/previous-generation/mswinSQL-od",
      "ec2/previous-generation/mswinSQLWeb-od">>

INSTANCES_RESERVED_UTILIZATION_TYPE_BY_URL ==
    ("elasticache/pricing-elasticache-light-standard-deployments-elasticache" :> "light") @@
    ("elasticache/pricing-elasticache-medium-standard-deployments" :> "medium") @@
    ("elasticache/pricing-elasticache-heavy-standard-deployments" :> "heavy") @@
    ("elasticache/previous-generation/pricing-elasticache-light-standard-deployments" :> "light") @@
    ("elasticache/previous-generation/pricing-elasticache-medium-standard-deployments" :> "medium") @@
    ("elasticache/previous-generation/pricing-elasticache-heavy-standard-deployments" :> "heavy")

ELC_INSTANCE_TYPE_MAPPING ==
    ("microInstClass.microInst" :> "cache.t1.micro") @@
    ("sCacheNode.sm" :> "cache.m1.small") @@
    ("sCacheNode.medInst" :> "cache.m1.medium") @@
    ("sCacheNode.lg" :> "cache.m1.large") @@
    ("sCacheNode.xl" :> "cache.m1.xlarge") @@
    ("hiMemCacheClass.xl" :> "cache.m2.xlarge") @@
    ("hiMemCacheClass.xxl" :> "cache.m2.2xlarge") @@
    ("hiMemCacheClass.xxxxl" :> "cache.m2.4xlarge") @@
    ("hiCPUDBInstClass.hiCPUxlDBInst" :> "cache.c1.xlarge") @@
    ("enInstClass2.xl" :> "cache.m3.xlarge") @@
    ("enInstClass2.xxl" :> "cache.m3.2xlarge") @@
    ("mic" :> "cache.t1.micro") @@
    ("sm" :> "cache.m1.small") @@
    ("medInst" :> "cache.m1.medium") @@
    ("lg" :> "cache.m1.large") @@
    ("xl" :> "cache.m1.xlarge") @@
    ("xlHiMem" :> "cache.m2.xlarge") @@
    ("xxlHiMem" :> "cache.m2.2xlarge") @@
    ("xxxxlHiMem" :> "cache.m2.4xlarge") @@
    ("xlHiCPU" :> "cache.c1.xlarge") @@
    ("xlEn" :> "cache.m3.xlarge") @@
    ("xxlEn" :> "cache.m3.2xlarge")

ELC_reserved_urls ==
    <<"elasticache/pricing-elasticache-light-standard-deployments-elasticache",
      "elasticache/pricing-elasticache-medium-standard-deployments",
      "elasticache/pricing-elasticache-heavy-standard-deployments",
      "elasticache/previous-generation/pricing-elasticache-light-standard-deployments",
      "elasticache/previous-generation/pricing-elasticache-medium-standard-deployments",
      "elasticache/previous-generation/pricing-elasticache-heavy-standard-deployments">>

ELC_ondemand_urls ==
    <<"elasticache/pricing-standard-deployments-elasticache",
      "elasticache/previous-generation/pricing-standard-deployments-elasticache">>

RDS_MULTIAZ_MAPPING ==
    ("Micro and Small Instances - Current Generation - Single-AZ" :> "single") @@
    ("Standard Instances - Current Generation - Single-AZ" :> "single") @@
    ("Micro and Small Instances - Current Generation - Multi-AZ" :> "multi-az") @@
    ("Standard Instances - Current Generation - Multi-AZ" :> "multi-az") @@
    ("Memory Optimized Instances - Current Generation - Single-AZ" :> "single") @@
    ("Memory Optimized Instances - Current Generation - Multi-AZ" :> "multi-az") @@
    ("Micro Instances - Previous Generation - Single-AZ" :> "single") @@
    ("Micro Instances - Previous Generation - Multi-AZ" :> "multi-az") @@
    ("Standard Instances - Previous Generation - Single-AZ" :> "single") @@
    ("Standard Instances - Previous Generation - Multi-AZ" :> "multi-az") @@
    ("Micro and Small Instances - Previous Generation - Single-AZ" :> "single") @@
    ("Micro and Small Instances - Previous Generation - Multi-AZ" :> "multi-az") @@
    ("Memory Optimized Instances - Previous Generation - Single-AZ" :> "single") @@
    ("Memory Optimized Instances - Previous Generation - Multi-AZ" :> "multi-az")

RDS_ONDEMAND_TYPE_BY_URL ==
    ("rds/mysql/pricing-standard-deployments" :> <<"gpl","mysql">>) @@
    ("rds/oracle/pricing-li-standard-deployments" :> <<"included","oracle-se1">>) @@
    ("rds/oracle/pricing-byol-standard-deployments" :> <<"byol","oracle">>) @@
    ("rds/sqlserver/sqlserver-li-ex-ondemand" :> <<"included","sqlserver-ex">>) @@
    ("rds/sqlserver/sqlserver-li-web-ondemand" :> <<"included","sqlserver-web">>) @@
    ("rds/sqlserver/sqlserver-li-se-ondemand" :> <<"included","sqlserver-se">>) @@
    ("rds/sqlserver/sqlserver-byol-ondemand" :> <<"byol","sqlserver">>) @@
    ("rds/postgresql/pricing-standard-deployments" :> <<"postgresql","postgres">>) @@
    ("rds/mysql/previous-generation/pricing-standard-deployments" :> <<"gpl","mysql">>) @@
    ("rds/oracle/previous-generation/pricing-li-standard-deployments" :> <<"included","oracle-se1">>) @@
    ("rds/oracle/previous-generation/pricing-byol-standard-deployments" :> <<"byol","oracle">>) @@
    ("rds/sqlserver/previous-generation/sqlserver-li-ex-ondemand" :> <<"included","sqlserver-ex">>) @@
    ("rds/sqlserver/previous-generation/sqlserver-li-web-ondemand" :> <<"included","sqlserver-web">>) @@
    ("rds/sqlserver/previous-generation/sqlserver-li-se-ondemand" :> <<"included","sqlserver-se">>) @@
    ("rds/sqlserver/previous-generation/sqlserver-byol-ondemand" :> <<"byol","sqlserver">>) @@
    ("rds/postgresql/previous-generation/pricing-standard-deployments" :> <<"postgresql","postgres">>)

RDS_ONDEMAND_MULTIAZ_TYPE_BY_URL ==
    ("rds/mysql/pricing-multiAZ-deployments" :> <<"gpl","mysql">>) @@
    ("rds/oracle/pricing-li-multiAZ-deployments" :> <<"included","oracle-se1">>) @@
    ("rds/oracle/pricing-byol-multiAZ-deployments" :> <<"byol","oracle">>) @@
    ("rds/sqlserver/sqlserver-li-se-ondemand-maz" :> <<"included","sqlserver-se">>) @@
    ("rds/sqlserver/sqlserver-byol-ondemand-maz" :> <<"byol","sqlserver">>) @@
    ("rds/postgresql/pricing-multiAZ-deployments" :> <<"postgresql","postgres">>) @@
    ("rds/mysql/previous-generation/pricing-multiAZ-deployments" :> <<"gpl","mysql">>) @@
    ("rds/oracle/previous-generation/pricing-li-multiAZ-deployments" :> <<"included","oracle-se1">>) @@
    ("rds/oracle/previous-generation/pricing-byol-multiAZ-deployments" :> <<"byol","oracle">>) @@
    ("rds/sqlserver/previous-generation/sqlserver-li-se-ondemand-maz" :> <<"included","sqlserver-se">>) @@
    ("rds/sqlserver/previous-generation/sqlserver-byol-ondemand-maz" :> <<"byol","sqlserver">>) @@
    ("rds/postgresql/previous-generation/pricing-multiAZ-deployments" :> <<"postgresql","postgres">>)

RDS_RESERVED_TYPE_BY_URL_NEW ==
    ("rds/reserved-instances/mysql-standard" :> <<"gpl","mysql">>) @@
    ("rds/reserved-instances/oracle-se1-license-included-standard" :> <<"included","oracle-se1">>) @@
    ("rds/reserved-instances/oracle-se-byol-standard" :> <<"byol","oracle">>) @@
    ("rds/reserved-instances/sql-server-se-byol-standard" :> <<"byol","sqlserver">>) @@
    ("rds/reserved-instances/postgresql-standard" :> <<"postgresql","postgres">>) @@
    ("rds/previous-generation/reserved-instances/mysql-standard" :> <<"gpl","mysql">>) @@
    ("rds/previous-generation/reserved-instances/oracle-se1-license-included-standard" :> <<"included","oracle-se1">>) @@
    ("rds/previous-generation/reserved-instances/oracle-se-byol-standard" :> <<"byol","oracle">>) @@
    ("rds/previous-generation/reserved-instances/sql-server-se-byol-standard" :> <<"byol","sqlserver">>) @@
    ("rds/previous-generation/reserved-instances/postgresql-standard" :> <<"postgresql","postgres">>)

RDS_RESERVED_MULTIAZ_TYPE_BY_URL_NEW ==
    ("rds/reserved-instances/mysql-multiAZ" :> <<"gpl","mysql">>) @@
    ("rds/reserved-instances/oracle-se1-license-included-multiAZ" :> <<"included","oracle-se1">>) @@
    ("rds/reserved-instances/oracle-se-byol-multiAZ" :> <<"byol","oracle">>) @@
    ("rds/reserved-instances/sql-server-se-byol-multiAZ" :> <<"byol","sqlserver">>) @@
    ("rds/reserved-instances/postgresql-multiAZ" :> <<"postgresql","postgres">>) @@
    ("rds/previous-generation/reserved-instances/mysql-multiAZ" :> <<"gpl","mysql">>) @@
    ("rds/previous-generation/reserved-instances/oracle-se1-license-included-multiAZ" :> <<"included","oracle-se1">>) @@
    ("rds/previous-generation/reserved-instances/oracle-se-byol-multiAZ" :> <<"byol","oracle">>) @@
    ("rds/previous-generation/reserved-instances/sql-server-se-byol-multiAZ" :> <<"byol","sqlserver">>) @@
    ("rds/previous-generation/reserved-instances/postgresql-multiAZ" :> <<"postgresql","postgres">>)

RDS_RESERVED_TYPE_BY_URL_OLD ==
    ("rds/sqlserver/sqlserver-li-ex-light-ri" :> <<"included","sqlserver-ex","light">>) @@
    ("rds/sqlserver/sqlserver-li-ex-medium-ri" :> <<"included","sqlserver-ex","medium">>) @@
    ("rds/sqlserver/sqlserver-li-ex-heavy-ri" :> <<"included","sqlserver-ex","heavy">>) @@
    ("rds/sqlserver/sqlserver-li-web-light-ri" :> <<"included","sqlserver-web","light">>) @@
    ("rds/sqlserver/sqlserver-li-web-medium-ri" :> <<"included","sqlserver-web","medium">>) @@
    ("rds/sqlserver/sqlserver-li-web-heavy-ri" :> <<"included","sqlserver-web","heavy">>) @@
    ("rds/sqlserver/sqlserver-li-se-light-ri" :> <<"included","sqlserver-se","light">>) @@
    ("rds/sqlserver/sqlserver-li-se-medium-ri" :> <<"included","sqlserver-se","medium">>) @@
    ("rds/sqlserver/sqlserver-li-se-heavy-ri" :> <<"included","sqlserver-se","heavy">>) @@
    ("rds/sqlserver/previous-generation/sqlserver-li-ex-light-ri" :> <<"included","sqlserver-ex","light">>) @@
    ("rds/sqlserver/previous-generation/sqlserver-li-ex-medium-ri" :> <<"included","sqlserver-ex","medium">>) @@
    ("rds/sqlserver/previous-generation/sqlserver-li-ex-heavy-ri" :> <<"included","sqlserver-ex","heavy">>) @@
    ("rds/sqlserver/previous-generation/sqlserver-li-web-light-ri" :> <<"included","sqlserver-web","light">>) @@
    ("rds/sqlserver/previous-generation/sqlserver-li-web-medium-ri" :> <<"included","sqlserver-web","medium">>) @@
    ("rds/sqlserver/previous-generation/sqlserver-li-web-heavy-ri" :> <<"included","sqlserver-web","heavy">>) @@
    ("rds/sqlserver/previous-generation/sqlserver-li-se-light-ri" :> <<"included","sqlserver-se","light">>) @@
    ("rds/sqlserver/previous-generation/sqlserver-li-se-medium-ri" :> <<"included","sqlserver-se","medium">>) @@
    ("rds/sqlserver/previous-generation/sqlserver-li-se-heavy-ri" :> <<"included","sqlserver-se","heavy">>)

RDS_urls_new ==
    <<"rds/reserved-instances/mysql-standard",
      "rds/reserved-instances/mysql-multiAZ",
      "rds/reserved-instances/oracle-se1-license-included-standard",
      "rds/reserved-instances/oracle-se1-license-included-multiAZ",
      "rds/reserved-instances/oracle-se-byol-standard",
      "rds/reserved-instances/oracle-se-byol-multiAZ",
      "rds/reserved-instances/sql-server-se-byol-standard",
      "rds/reserved-instances/sql-server-se-byol-multiAZ",
      "rds/reserved-instances/postgresql-standard",
      "rds/reserved-instances/postgresql-multiAZ",
      "rds/previous-generation/reserved-instances/mysql-standard",
      "rds/previous-generation/reserved-instances/mysql-multiAZ",
      "rds/previous-generation/reserved-instances/oracle-se1-license-included-standard",
      "rds/previous-generation/reserved-instances/oracle-se1-license-included-multiAZ",
      "rds/previous-generation/reserved-instances/oracle-se-byol-standard",
      "rds/previous-generation/reserved-instances/oracle-se-byol-multiAZ",
      "rds/previous-generation/reserved-instances/sql-server-se-byol-standard",
      "rds/previous-generation/reserved-instances/sql-server-se-byol-multiAZ",
      "rds/previous-generation/reserved-instances/postgresql-standard",
      "rds/previous-generation/reserved-instances/postgresql-multiAZ">>

RDS_urls_old ==
    <<"rds/sqlserver/sqlserver-li-ex-light-ri",
      "rds/sqlserver/sqlserver-li-ex-medium-ri",
      "rds/sqlserver/sqlserver-li-ex-heavy-ri",
      "rds/sqlserver/sqlserver-li-web-light-ri",
      "rds/sqlserver/sqlserver-li-web-medium-ri",
      "rds/sqlserver/sqlserver-li-web-heavy-ri",
      "rds/sqlserver/sqlserver-li-se-light-ri",
      "rds/sqlserver/sqlserver-li-se-medium-ri",
      "rds/sqlserver/sqlserver-li-se-heavy-ri",
      "rds/sqlserver/previous-generation/sqlserver-li-ex-light-ri",
      "rds/sqlserver/previous-generation/sqlserver-li-ex-medium-ri",
      "rds/sqlserver/previous-generation/sqlserver-li-ex-heavy-ri",
      "rds/sqlserver/previous-generation/sqlserver-li-web-light-ri",
      "rds/sqlserver/previous-generation/sqlserver-li-web-medium-ri",
      "rds/sqlserver/previous-generation/sqlserver-li-web-heavy-ri",
      "rds/sqlserver/previous-generation/sqlserver-li-se-light-ri",
      "rds/sqlserver/previous-generation/sqlserver-li-se-medium-ri",
      "rds/sqlserver/previous-generation/sqlserver-li-se-heavy-ri">>

RDS_ondemand_urls ==
    <<"rds/mysql/pricing-standard-deployments",
      "rds/mysql/pricing-multiAZ-deployments",
      "rds/oracle/pricing-li-standard-deployments",
      "rds/oracle/pricing-li-multiAZ-deployments",
      "rds/oracle/pricing-byol-standard-deployments",
      "rds/oracle/pricing-byol-multiAZ-deployments",
      "rds/sqlserver/sqlserver-li-ex-ondemand",
      "rds/sqlserver/sqlserver-li-web-ondemand",
      "rds/sqlserver/sqlserver-li-se-ondemand",
      "rds/sqlserver/sqlserver-li-se-ondemand-maz",
      "rds/sqlserver/sqlserver-byol-ondemand",
      "rds/sqlserver/sqlserver-byol-ondemand-maz",
      "rds/postgresql/pricing-standard-deployments",
      "rds/postgresql/pricing-multiAZ-deployments",
      "rds/mysql/previous-generation/pricing-standard-deployments",
      "rds/mysql/previous-generation/pricing-multiAZ-deployments",
      "rds/oracle/previous-generation/pricing-li-standard-deployments",
      "rds/oracle/previous-generation/pricing-li-multiAZ-deployments",
      "rds/oracle/previous-generation/pricing-byol-standard-deployments",
      "rds/oracle/previous-generation/pricing-byol-multiAZ-deployments",
      "rds/sqlserver/previous-generation/sqlserver-li-ex-ondemand",
      "rds/sqlserver/previous-generation/sqlserver-li-web-ondemand",
      "rds/sqlserver/previous-generation/sqlserver-li-se-ondemand",
      "rds/sqlserver/previous-generation/sqlserver-li-se-ondemand-maz",
      "rds/sqlserver/previous-generation/sqlserver-byol-ondemand",
      "rds/sqlserver/previous-generation/sqlserver-byol-ondemand-maz",
      "rds/postgresql/previous-generation/pricing-standard-deployments",
      "rds/postgresql/previous-generation/pricing-multiAZ-deployments">>

RS_reserved_urls ==
    <<"redshift/pricing-reserved-redshift-instances",
      "redshift/previous-generation/pricing-reserved-redshift-instances">>

RS_ondemand_urls ==
    <<"redshift/pricing-on-demand-redshift-instances",
      "redshift/previous-generation/pricing-on-demand-redshift-instances">>

\* the two URLs ELCPrices.get_reserved_instances_prices compares u with
INSTANCES_RESERVED_LIGHT_UTILIZATION_URL ==
    "elasticache/pricing-elasticache-light-standard-deployments-elasticache"

INSTANCES_RESERVED_MEDIUM_UTILIZATION_URL ==
    "elasticache/pricing-elasticache-medium-standard-deployments"

-----------------------------------------------------------------------------
(* What the normalizers share.  The body of "for u in urls" folds one feed  *)
(* into acc = [err, regions, index]: regions is result_regions, index is    *)
(* result_regions_index (a region name to the position in regions of the    *)
(* entry it refers to), err names the exception that ended the loop.        *)

Raise(acc, e) == [acc EXCEPT !.err = e]

\* the text of a JSON string
Text(x) == Str(x.v)

\* open_region without the test of the index: every region entry of a feed
\* gets an entry of its own
open_region_fresh(acc, region_name) ==
    [acc EXCEPT
        !.regions = Append(@, [region |-> region_name, instanceTypes |-> <<>>]),
        !.index = [n \in DOMAIN @ \cup {region_name} |->
                      IF n = region_name THEN Len(acc.regions) + 1 ELSE @[n]]]

\* open_region that puts a region not seen before at the head of the list
open_region_front(acc, region_name) ==
    IF region_name \in DOMAIN acc.index THEN acc
    ELSE [acc EXCEPT
            !.regions = <<[region |-> region_name, instanceTypes |-> <<>>]>> \o @,
            !.index = (region_name :> 1)
                      @@ [n \in DOMAIN acc.index |-> acc.index[n] + 1]]

\* open_region that indexes the first entry of the list under the new name
open_region_first(acc, region_name) ==
    IF region_name \in DOMAIN acc.index THEN acc
    ELSE [acc EXCEPT
            !.regions = Append(@, [region |-> region_name,
                                   instanceTypes |-> <<>>]),
            !.index = (region_name :> 1) @@ @]

\* if region_name in result_regions_index: ... else: result_regions.append
\* (...); result_regions_index[region_name] = result_regions[-1]
open_region(acc, region_name) ==
    IF region_name \in DOMAIN acc.index THEN acc
    ELSE [acc EXCEPT
            !.regions = Append(@, [region |-> region_name,
                                   instanceTypes |-> <<>>]),
            !.index = (region_name :> (Len(acc.regions) + 1)) @@ @]

\* append_offering that keeps the last offering only
append_offering_replace(acc, region_name, offering) ==
    [acc EXCEPT !.regions[acc.index[region_name]].instanceTypes = <<offering>>]

\* instance_types.append(offering), instance_types being the list of the
\* entry the index refers to
append_offering(acc, region_name, offering) ==
    [acc EXCEPT !.regions[acc.index[region_name]].instanceTypes =
                    Append(@, offering)]

Cell == [hourly |-> Null, upfront |-> Null]

\* the prices literal of EC2Prices.get_reserved_instances_prices
EC2_prices ==
    ("1" :> [noUpfront |-> Cell, partialUpfront |-> Cell, allUpfront |-> Cell])
    @@ ("3" :> [partialUpfront |-> Cell, allUpfront |-> Cell])

\* the prices literal of the new-scheme loop of RDSPrices and of RSPrices
full_prices ==
    ("1" :> [noUpfront |-> Cell, partialUpfront |-> Cell, allUpfront |-> Cell])
    @@ ("3" :> [noUpfront |-> Cell, partialUpfront |-> Cell, allUpfront |-> Cell])

\* the prices literal of the legacy loops
legacy_prices == ("1" :> Cell) @@ ("3" :> Cell)

\* set_cell that makes the cell of a payment option the literal has not
set_cell_adding(acc, t, po, field, value) ==
    IF po \notin DOMAIN acc.prices[t]
    THEN [acc EXCEPT !.prices[t] = (po :> [Cell EXCEPT ![field] = value]) @@ @]
    ELSE [acc EXCEPT !.prices[t][po][field] = value]

\* prices[t][po][field] = value: reading prices[t][po] raises KeyError when
\* the literal has no such payment option
set_cell(acc, t, po, field, value) ==
    IF po \notin DOMAIN acc.prices[t] THEN Raise(acc, "KeyError")
    ELSE [acc EXCEPT !.prices[t][po][field] = value]

\* one price column of purchase option po of a term: acc = [err, prices].
\* price/730 raises TypeError when price is None
new_scheme_column(acc, price_data, term, po) ==
    LET p == price_strict(price_data)
    IN  IF p.err # "" THEN Raise(acc, p.err)
        ELSE IF term \notin {"yrTerm1", "yrTerm3"} THEN acc
        ELSE IF ~Has(price_data, "name") THEN Raise(acc, "KeyError")
        ELSE LET t    == IF term = "yrTerm1" THEN "1" ELSE "3"
                 name == Text(price_data.v["name"])
             IN  IF name = "upfront"
                 THEN set_cell(acc, t, po, "upfront", p.price)
                 ELSE IF name = "monthlyStar"
                 THEN IF p.price.null THEN Raise(acc, "TypeError")
                      ELSE set_cell(acc, t, po, "hourly", per_hour(p.price))
                 ELSE acc

\* for po_data in s["purchaseOptions"]: po = po_data["purchaseOption"]; ...
new_scheme_option(acc, po_data, term) ==
    IF ~Has(po_data, "purchaseOption") \/ ~Has(po_data, "valueColumns")
    THEN Raise(acc, "KeyError")
    ELSE FoldErr(LAMBDA a, pd :
                     new_scheme_column(a, pd, term,
                                       Text(po_data.v["purchaseOption"])),
                 Items(po_data.v["valueColumns"]), 1, acc)

\* for s in it["terms"]: term = s["term"]; ...
new_scheme_term(acc, s) ==
    IF ~Has(s, "term") \/ ~Has(s, "purchaseOptions")
    THEN Raise(acc, "KeyError")
    ELSE FoldErr(LAMBDA a, pod : new_scheme_option(a, pod, Text(s.v["term"])),
                 Items(s.v["purchaseOptions"]), 1, acc)

\* if "terms" in it: ... : the prices of one instance entry, from the
\* literal; the same text in EC2Prices (437-461), RDSPrices (1761-1785)
\* and RSPrices (2244-2270)
new_scheme_prices(it, literal) ==
    IF Has(it, "terms")
    THEN FoldErr(LAMBDA a, s : new_scheme_term(a, s), Items(it.v["terms"]), 1,
                 [err |-> "", prices |-> literal])
    ELSE [err |-> "", prices |-> literal]

-----------------------------------------------------------------------------
(* EC2Prices *)

EC2_reserved_instance(acc, it, region_name, os_type) ==
    IF ~Has(it, "type") THEN Raise(acc, "KeyError")
    ELSE LET pr == new_scheme_prices(it, EC2_prices)
         IN  IF pr.err # "" THEN Raise(acc, pr.err)
             ELSE append_offering(acc, region_name,
                                  [type |-> Text(it.v["type"]),
                                   os |-> os_type,
                                   prices |-> pr.prices])

\* EC2_reserved_region that passes over a region entry without instance list
EC2_reserved_region_listed(acc, r, os_type) ==
    IF ~has_region_id(r) \/ ~Has(r, "instanceTypes") THEN acc
    ELSE LET region_name == Text(r.v["region"])
         IN  FoldErr(LAMBDA a, it :
                         EC2_reserved_instance(a, it, region_name, os_type),
                     Items(r.v["instanceTypes"]), 1,
                     open_region(acc, region_name))

EC2_reserved_region(acc, r, os_type) ==
    IF ~has_region_id(r) THEN acc
    ELSE LET region_name == Text(r.v["region"])
             opened      == open_region(acc, region_name)
         IN  IF Has(r, "instanceTypes")
             THEN FoldErr(LAMBDA a, it :
                              EC2_reserved_instance(a, it, region_name, os_type),
                          Items(r.v["instanceTypes"]), 1, opened)
             ELSE opened

\* the body of "for u in urls" after load_data
EC2_reserved_feed(acc, u, parsed) ==
    IF has_regions(parsed)
    THEN FoldErr(LAMBDA a, r :
                     EC2_reserved_region(a, r, INSTANCES_RESERVED_OS_TYPE_BY_URL[u]),
                 Items(parsed.v["config"].v["regions"]), 1, acc)
    ELSE acc

\* for price_data in s["valueColumns"]: one offering per price column,
\* its os the column's name; acc = [err, types]
\* EC2_ondemand_size that makes one offering of a size, of its first column
EC2_ondemand_size_first(acc, s) ==
    IF ~Has(s, "size") \/ ~Has(s, "valueColumns") THEN Raise(acc, "KeyError")
    ELSE FoldErr(LAMBDA a, pd :
                     IF ~Has(pd, "name") THEN Raise(a, "KeyError")
                     ELSE [a EXCEPT !.types =
                              Append(@, [type |-> Text(s.v["size"]),
                                         os |-> Text(pd.v["name"]),
                                         price |-> price_lenient(pd)])],
                 SubSeq(Items(s.v["valueColumns"]), 1, 1), 1, acc)

EC2_ondemand_size(acc, s) ==
    IF ~Has(s, "size") \/ ~Has(s, "valueColumns") THEN Raise(acc, "KeyError")
    ELSE FoldErr(LAMBDA a, pd :
                     IF ~Has(pd, "name") THEN Raise(a, "KeyError")
                     ELSE [a EXCEPT !.types =
                              Append(@, [type |-> Text(s.v["size"]),
                                         os |-> Text(pd.v["name"]),
                                         price |-> price_lenient(pd)])],
                 Items(s.v["valueColumns"]), 1, acc)

EC2_ondemand_region(acc, r) ==
    IF ~has_region_id(r) \/ ~Has(r, "instanceTypes") THEN acc
    ELSE LET ts == FoldErr(LAMBDA a, it :
                               IF Has(it, "sizes")
                               THEN FoldErr(LAMBDA b, s : EC2_ondemand_size(b, s),
                                            Items(it.v["sizes"]), 1, a)
                               ELSE a,
                           Items(r.v["instanceTypes"]), 1,
                           [err |-> "", types |-> <<>>])
         IN  IF ts.err # "" THEN Raise(acc, ts.err)
             ELSE [acc EXCEPT !.regions =
                      Append(@, [region |-> Text(r.v["region"]),
                                 instanceTypes |-> ts.types])]

EC2_ondemand_feed(acc, u, parsed) ==
    IF has_regions(parsed)
    THEN FoldErr(LAMBDA a, r : EC2_ondemand_region(a, r),
                 Items(parsed.v["config"].v["regions"]), 1, acc)
    ELSE acc

-----------------------------------------------------------------------------
(* ELCPrices *)

\* one price column of a tier: acc = [err, prices]
ELC_reserved_column(acc, price_data) ==
    LET p == price_strict(price_data)
    IN  IF p.err # "" THEN Raise(acc, p.err)
        ELSE IF ~Has(price_data, "name") THEN Raise(acc, "KeyError")
        ELSE LET name == Text(price_data.v["name"])
             IN  IF name = "yrTerm1"
                     THEN [acc EXCEPT !.prices["1"].upfront = p.price]
                 ELSE IF name = "yearTerm1Hourly"
                     THEN [acc EXCEPT !.prices["1"].hourly = p.price]
                 ELSE IF name = "yrTerm3"
                     THEN [acc EXCEPT !.prices["3"].upfront = p.price]
                 ELSE IF name = "yearTerm3Hourly"
                     THEN [acc EXCEPT !.prices["3"].hourly = p.price]
                 ELSE acc

ELC_reserved_tier(acc, s, u, region_name) ==
    IF ~Has(s, "size") THEN Raise(acc, "KeyError")
    ELSE LET mapped == u = INSTANCES_RESERVED_LIGHT_UTILIZATION_URL
                       \/ u = INSTANCES_RESERVED_MEDIUM_UTILIZATION_URL
             size   == Text(s.v["size"])
         IN  IF mapped /\ size \notin DOMAIN ELC_INSTANCE_TYPE_MAPPING
             THEN Raise(acc, "KeyError")
             ELSE IF ~Has(s, "valueColumns") THEN Raise(acc, "KeyError")
             ELSE LET pr == FoldErr(LAMBDA a, pd : ELC_reserved_column(a, pd),
                                    Items(s.v["valueColumns"]), 1,
                                    [err |-> "", prices |-> legacy_prices])
                  IN  IF pr.err # "" THEN Raise(acc, pr.err)
                      ELSE append_offering(acc, region_name,
                              [type |-> IF mapped
                                        THEN ELC_INSTANCE_TYPE_MAPPING[size]
                                        ELSE size,
                               utilization |->
                                   INSTANCES_RESERVED_UTILIZATION_TYPE_BY_URL[u],
                               prices |-> pr.prices])

ELC_reserved_region(acc, r, u) ==
    IF ~has_region_id(r) THEN acc
    ELSE IF Text(r.v["region"]) \notin DOMAIN JSON_NAME_TO_REGIONS_API
    THEN Raise(acc, "KeyError")
    ELSE LET region_name == JSON_NAME_TO_REGIONS_API[Text(r.v["region"])]
             opened      == open_region(acc, region_name)
         IN  IF Has(r, "instanceTypes")
             THEN FoldErr(LAMBDA a, it :
                              IF Has(it, "tiers")
                              THEN FoldErr(LAMBDA b, s :
                                      ELC_reserved_tier(b, s, u, region_name),
                                           Items(it.v["tiers"]), 1, a)
                              ELSE a,
                          Items(r.v["instanceTypes"]), 1, opened)
             ELSE opened

ELC_reserved_feed(acc, u, parsed) ==
    IF has_regions(parsed)
    THEN FoldErr(LAMBDA a, r : ELC_reserved_region(a, r, u),
                 Items(parsed.v["config"].v["regions"]), 1, acc)
    ELSE acc

\* one tier of an on-demand feed: acc = [err, types]
ELC_ondemand_tier(acc, s) ==
    IF ~Has(s, "name") THEN Raise(acc, "KeyError")
    ELSE LET p == price_strict(s)
         IN  IF p.err # "" THEN Raise(acc, p.err)
             ELSE [acc EXCEPT !.types =
                      Append(@, [type |-> Text(s.v["name"]), price |-> p.price])]

ELC_ondemand_region(acc, r) ==
    IF ~has_region_id(r) THEN acc
    ELSE IF Text(r.v["region"]) \notin DOMAIN JSON_NAME_TO_REGIONS_API
    THEN Raise(acc, "KeyError")
    ELSE IF ~Has(r, "types") THEN acc
    ELSE LET ts == FoldErr(LAMBDA a, it :
                               IF Has(it, "tiers")
                               THEN FoldErr(LAMBDA b, s : ELC_ondemand_tier(b, s),
                                            Items(it.v["tiers"]), 1, a)
                               ELSE a,
                           Items(r.v["types"]), 1,
                           [err |-> "", types |-> <<>>])
         IN  IF ts.err # "" THEN Raise(acc, ts.err)
             ELSE [acc EXCEPT !.regions =
                      Append(@, [region |->
                                     JSON_NAME_TO_REGIONS_API[Text(r.v["region"])],
                                 instanceTypes |-> ts.types])]

ELC_ondemand_feed(acc, u, parsed) ==
    IF has_regions(parsed)
    THEN FoldErr(LAMBDA a, r : ELC_ondemand_region(a, r),
                 Items(parsed.v["config"].v["regions"]), 1, acc)
    ELSE acc

-----------------------------------------------------------------------------
(* RDSPrices *)

\* the table of RDSPrices; no method of the class reads it
RDS_INSTANCE_TYPE_MAPPING ==
    ("udbInstClass.uDBInst" :> "db.t1.micro") @@
    ("dbInstClass.uDBInst" :> "db.t1.micro") @@
    ("dbInstClass.db.t1.micro" :> "db.t1.micro") @@
    ("dbInstClass.db.m3.medium" :> "db.m3.medium") @@
    ("dbInstClass.db.m3.large" :> "db.m3.large") @@
    ("dbInstClass.db.m3.xlarge" :> "db.m3.xlarge") @@
    ("dbInstClass.db.m3.2xlarge" :> "db.m3.2xlarge") @@
    ("dbInstClass.smDBInst" :> "db.m1.small") @@
    ("dbInstClass.db.m1.small" :> "db.m1.small") @@
    ("dbInstClass.medDBInst" :> "db.m1.medium") @@
    ("dbInstClass.db.m1.medium" :> "db.m1.medium") @@
    ("dbInstClass.lgDBInst" :> "db.m1.large") @@
    ("dbInstClass.db.m1.large" :> "db.m1.large") @@
    ("dbInstClass.xlDBInst" :> "db.m1.xlarge") @@
    ("dbInstClass.db.m1.xlarge" :> "db.m1.xlarge") @@
    ("hiMemDBInstClass.xlDBInst" :> "db.m2.xlarge") @@
    ("memDBCurrentGen.db.m2.xlarge" :> "db.m2.xlarge") @@
    ("hiMemDBInstClass.xxlDBInst" :> "db.m2.2xlarge") @@
    ("memDBCurrentGen.db.m2.2xlarge" :> "db.m2.2xlarge") @@
    ("hiMemDBInstClass.xxxxDBInst" :> "db.m2.4xlarge") @@
    ("memDBCurrentGen.db.m2.4xlarge" :> "db.m2.4xlarge") @@
    ("clusterHiMemDB.xxxxxxxxl" :> "db.cr1.8xlarge") @@
    ("memDBCurrentGen.db.cr1.8xl" :> "db.cr1.8xlarge") @@
    ("multiAZDBInstClass.uDBInst" :> "db.t1.micro") @@
    ("multiAZDBInstClass.smDBInst" :> "db.m1.small") @@
    ("multiAZDBInstClass.medDBInst" :> "db.m1.medium") @@
    ("multiAZDBInstClass.lgDBInst" :> "db.m1.large") @@
    ("multiAZDBInstClass.xlDBInst" :> "db.m1.xlarge") @@
    ("multiAZDBInstClass.db.t1.micro" :> "db.t1.micro") @@
    ("multiAZDBInstClass.db.m1.small" :> "db.m1.small") @@
    ("multiAZDBInstClass.db.m1.medium" :> "db.m1.medium") @@
    ("multiAZDBInstClass.db.m1.large" :> "db.m1.large") @@
    ("multiAZDBInstClass.db.m1.xlarge" :> "db.m1.xlarge") @@
    ("multiAZDBInstClass.db.m3.medium" :> "db.m3.medium") @@
    ("multiAZDBInstClass.db.m3.large" :> "db.m3.large") @@
    ("multiAZDBInstClass.db.m3.xlarge" :> "db.m3.xlarge") @@
    ("multiAZDBInstClass.db.m3.2xlarge" :> "db.m3.2xlarge") @@
    ("multiAZHiMemInstClass.xlDBInst" :> "db.m2.xlarge") @@
    ("multiAZHiMemInstClass.xxlDBInst" :> "db.m2.2xlarge") @@
    ("multiAZHiMemInstClass.xxxxDBInst" :> "db.m2.4xlarge") @@
    ("multiAZClusterHiMemDB.xxxxxxxxl" :> "db.cr1.8xlarge") @@
    ("stdDeployRes.u" :> "db.t1.micro") @@
    ("stdDeployRes.micro" :> "db.t1.micro") @@
    ("stdDeployRes.sm" :> "db.m1.small") @@
    ("stdDeployRes.med" :> "db.m1.medium") @@
    ("stdDeployRes.lg" :> "db.m1.large") @@
    ("stdDeployRes.xl" :> "db.m1.xlarge") @@
    ("stdDeployRes.xlHiMem" :> "db.m2.xlarge") @@
    ("stdDeployRes.xxlHiMem" :> "db.m2.2xlarge") @@
    ("stdDeployRes.xxxxlHiMem" :> "db.m2.4xlarge") @@
    ("stdDeployRes.xxxxxxxxl" :> "db.cr1.8xlarge") @@
    ("multiAZdeployRes.u" :> "db.t1.micro") @@
    ("multiAZdeployRes.sm" :> "db.m1.small") @@
    ("multiAZdeployRes.med" :> "db.m1.medium") @@
    ("multiAZdeployRes.lg" :> "db.m1.large") @@
    ("multiAZdeployRes.xl" :> "db.m1.xlarge") @@
    ("multiAZdeployRes.xlHiMem" :> "db.m2.xlarge") @@
    ("multiAZdeployRes.xxlHiMem" :> "db.m2.2xlarge") @@
    ("multiAZdeployRes.xxxxlHiMem" :> "db.m2.4xlarge") @@
    ("multiAZdeployRes.xxxxxxxxl" :> "db.cr1.8xlarge")

\* one price column of a tier of a legacy feed: acc = [err, prices]
RDS_reserved_old_column(acc, price_data) ==
    LET p == price_strict(price_data)
    IN  IF p.err # "" THEN Raise(acc, p.err)
        ELSE IF ~Has(price_data, "name") THEN Raise(acc, "KeyError")
        ELSE LET name == Text(price_data.v["name"])
             IN  IF name = "yrTerm1"
                     THEN [acc EXCEPT !.prices["1"].upfront = p.price]
                 ELSE IF name \in {"yrTerm1Hourly", "yearTerm1Hourly"}
                     THEN [acc EXCEPT !.prices["1"].hourly = p.price]
                 ELSE IF name = "yrTerm3"
                     THEN [acc EXCEPT !.prices["3"].upfront = p.price]
                 ELSE IF name \in {"yrTerm3Hourly", "yearTerm3Hourly"}
                     THEN [acc EXCEPT !.prices["3"].hourly = p.price]
                 ELSE acc

RDS_reserved_old_tier(acc, s, info, multiaz, region_name) ==
    IF ~Has(s, "size") \/ ~Has(s, "valueColumns") THEN Raise(acc, "KeyError")
    ELSE LET pr == FoldErr(LAMBDA a, pd : RDS_reserved_old_column(a, pd),
                           Items(s.v["valueColumns"]), 1,
                           [err |-> "", prices |-> legacy_prices])
         IN  IF pr.err # "" THEN Raise(acc, pr.err)
             ELSE append_offering(acc, region_name,
                     [type |-> Text(s.v["size"]),
                      multiaz |-> multiaz,
                      license |-> info[1],
                      db |-> info[2],
                      utilization |-> info[3],
                      prices |-> pr.prices])

RDS_reserved_old_instance(acc, it, info, region_name) ==
    IF ~Has(it, "type") THEN Raise(acc, "KeyError")
    ELSE IF Text(it.v["type"]) \notin DOMAIN RDS_MULTIAZ_MAPPING
    THEN Raise(acc, "KeyError")
    ELSE IF Has(it, "tiers")
    THEN FoldErr(LAMBDA a, s :
                     RDS_reserved_old_tier(a, s, info,
                         RDS_MULTIAZ_MAPPING[Text(it.v["type"])], region_name),
                 Items(it.v["tiers"]), 1, acc)
    ELSE acc

RDS_reserved_old_region(acc, r, info) ==
    IF ~has_region_id(r) THEN acc
    ELSE IF Text(r.v["region"]) \notin DOMAIN JSON_NAME_TO_REGIONS_API
    THEN Raise(acc, "KeyError")
    ELSE LET region_name == JSON_NAME_TO_REGIONS_API[Text(r.v["region"])]
             opened      == open_region(acc, region_name)
         IN  IF Has(r, "instanceTypes")
             THEN FoldErr(LAMBDA a, it :
                              RDS_reserved_old_instance(a, it, info, region_name),
                          Items(r.v["instanceTypes"]), 1, opened)
             ELSE opened

\* the body of "for u in urls_old" after load_data
RDS_reserved_old_feed(acc, u, parsed) ==
    IF has_regions(parsed)
    THEN FoldErr(LAMBDA a, r :
                     RDS_reserved_old_region(a, r, RDS_RESERVED_TYPE_BY_URL_OLD[u]),
                 Items(parsed.v["config"].v["regions"]), 1, acc)
    ELSE acc

\* if u in self.RDS_RESERVED_TYPE_BY_URL_NEW: ... "single" else: ... "multi-az"
RDS_reserved_new_kind(u) ==
    IF u \in DOMAIN RDS_RESERVED_TYPE_BY_URL_NEW
    THEN [licensedb |-> RDS_RESERVED_TYPE_BY_URL_NEW[u], multiaz |-> "single"]
    ELSE [licensedb |-> RDS_RESERVED_MULTIAZ_TYPE_BY_URL_NEW[u],
          multiaz |-> "multi-az"]

RDS_reserved_new_instance(acc, it, kind, region_name) ==
    IF ~Has(it, "type") THEN Raise(acc, "KeyError")
    ELSE LET pr == new_scheme_prices(it, full_prices)
         IN  IF pr.err # "" THEN Raise(acc, pr.err)
             ELSE append_offering(acc, region_name,
                     [type |-> Text(it.v["type"]),
                      multiaz |-> kind.multiaz,
                      license |-> kind.licensedb[1],
                      db |-> kind.licensedb[2],
                      utilization |-> "heavy",
                      prices |-> pr.prices])

RDS_reserved_new_region(acc, r, kind) ==
    IF ~has_region_id(r) THEN acc
    ELSE LET region_name == Text(r.v["region"])
             opened      == open_region(acc, region_name)
         IN  IF Has(r, "instanceTypes")
             THEN FoldErr(LAMBDA a, it :
                              RDS_reserved_new_instance(a, it, kind, region_name),
                          Items(r.v["instanceTypes"]), 1, opened)
             ELSE opened

\* the body of "for u in urls_new" after load_data
RDS_reserved_new_feed(acc, u, parsed) ==
    IF has_regions(parsed)
    THEN FoldErr(LAMBDA a, r :
                     RDS_reserved_new_region(a, r, RDS_reserved_new_kind(u)),
                 Items(parsed.v["config"].v["regions"]), 1, acc)
    ELSE acc

\* RDS_ondemand_kind that has every feed single-AZ
RDS_ondemand_kind_single(u) ==
    [licensedb |-> (RDS_ONDEMAND_TYPE_BY_URL
                        @@ RDS_ONDEMAND_MULTIAZ_TYPE_BY_URL)[u],
     multiaz |-> "single"]

\* if u in self.RDS_ONDEMAND_TYPE_BY_URL: ... "single" else: ... "multi-az"
RDS_ondemand_kind(u) ==
    IF u \in DOMAIN RDS_ONDEMAND_TYPE_BY_URL
    THEN [licensedb |-> RDS_ONDEMAND_TYPE_BY_URL[u], multiaz |-> "single"]
    ELSE [licensedb |-> RDS_ONDEMAND_MULTIAZ_TYPE_BY_URL[u],
          multiaz |-> "multi-az"]

\* one tier of an on-demand feed: acc = [err, types]
RDS_ondemand_tier(acc, s, kind) ==
    IF ~Has(s, "name") THEN Raise(acc, "KeyError")
    ELSE LET p == price_strict(s)
         IN  IF p.err # "" THEN Raise(acc, p.err)
             ELSE [acc EXCEPT !.types =
                      Append(@, [type |-> Text(s.v["name"]),
                                 multiaz |-> kind.multiaz,
                                 license |-> kind.licensedb[1],
                                 db |-> kind.licensedb[2],
                                 price |-> p.price])]

RDS_ondemand_region(acc, r, kind) ==
    IF ~has_region_id(r) THEN acc
    ELSE IF Text(r.v["region"]) \notin DOMAIN JSON_NAME_TO_REGIONS_API
    THEN Raise(acc, "KeyError")
    ELSE IF ~Has(r, "types") THEN acc
    ELSE LET ts == FoldErr(LAMBDA a, it :
                               IF Has(it, "tiers")
                               THEN FoldErr(LAMBDA b, s :
                                                RDS_ondemand_tier(b, s, kind),
                                            Items(it.v["tiers"]), 1, a)
                               ELSE a,
                           Items(r.v["types"]), 1,
                           [err |-> "", types |-> <<>>])
         IN  IF ts.err # "" THEN Raise(acc, ts.err)
             ELSE [acc EXCEPT !.regions =
                      Append(@, [region |->
                                     JSON_NAME_TO_REGIONS_API[Text(r.v["region"])],
                                 instanceTypes |-> ts.types])]

RDS_ondemand_feed(acc, u, parsed) ==
    IF has_regions(parsed)
    THEN FoldErr(LAMBDA a, r : RDS_ondemand_region(a, r, RDS_ondemand_kind(u)),
                 Items(parsed.v["config"].v["regions"]), 1, acc)
    ELSE acc

-----------------------------------------------------------------------------
(* RSPrices *)

RS_reserved_instance(acc, it, region_name) ==
    IF ~Has(it, "type") THEN Raise(acc, "KeyError")
    ELSE LET pr == new_scheme_prices(it, full_prices)
         IN  IF pr.err # "" THEN Raise(acc, pr.err)
             ELSE append_offering(acc, region_name,
                     [type |-> Text(it.v["type"]), prices |-> pr.prices])

RS_reserved_region(acc, r) ==
    IF ~has_region_id(r) THEN acc
    ELSE LET region_name == Text(r.v["region"])
             opened      == open_region(acc, region_name)
         IN  IF Has(r, "instanceTypes")
             THEN FoldErr(LAMBDA a, it : RS_reserved_instance(a, it, region_name),
                          Items(r.v["instanceTypes"]), 1, opened)
             ELSE opened

RS_reserved_feed(acc, u, parsed) ==
    IF has_regions(parsed)
    THEN FoldErr(LAMBDA a, r : RS_reserved_region(a, r),
                 Items(parsed.v["config"].v["regions"]), 1, acc)
    ELSE acc

\* for price_data in s["valueColumns"]: one offering per price column;
\* acc = [err, types]
RS_ondemand_tier(acc, s) ==
    IF ~Has(s, "size") \/ ~Has(s, "valueColumns") THEN Raise(acc, "KeyError")
    ELSE FoldErr(LAMBDA a, pd :
                     [a EXCEPT !.types =
                         Append(@, [type |-> Text(s.v["size"]),
                                    price |-> price_lenient(pd)])],
                 Items(s.v["valueColumns"]), 1, acc)

RS_ondemand_region(acc, r) ==
    IF ~has_region_id(r) \/ ~Has(r, "instanceTypes") THEN acc
    ELSE LET ts == FoldErr(LAMBDA a, it :
                               IF Has(it, "tiers")
                               THEN FoldErr(LAMBDA b, s : RS_ondemand_tier(b, s),
                                            Items(it.v["tiers"]), 1, a)
                               ELSE a,
                           Items(r.v["instanceTypes"]), 1,
                           [err |-> "", types |-> <<>>])
         IN  IF ts.err # "" THEN Raise(acc, ts.err)
             ELSE [acc EXCEPT !.regions =
                      Append(@, [region |-> Text(r.v["region"]),
                                 instanceTypes |-> ts.types])]

\* RS_ondemand_feed that takes a feed without regions for an error
RS_ondemand_feed_strict(acc, u, parsed) ==
    IF has_regions(parsed)
    THEN FoldErr(LAMBDA a, r : RS_ondemand_region(a, r),
                 Items(parsed.v["config"].v["regions"]), 1, acc)
    ELSE Raise(acc, "KeyError")

RS_ondemand_feed(acc, u, parsed) ==
    IF has_regions(parsed)
    THEN FoldErr(LAMBDA a, r : RS_ondemand_region(a, r),
                 Items(parsed.v["config"].v["regions"]), 1, acc)
    ELSE acc

-----------------------------------------------------------------------------
(* The feeds.  What urllib2.urlopen(url).read() returns is the choice of    *)
(* the pricing site: a text in the shape the normalizer reading that URL    *)
(* expects (JavaScript with bare keys in a callback, as the site serves     *)
(* it), a text of another shape, a damaged text, or no text at all.         *)

\* the characters of a text
Chars(s) == [i \in 1..Len(s) |-> SubSeq(s, i, i)]

Q(s) == "\"" \o s \o "\""

\* the price holder of a column or tier, in the currency the code reads
USD(tok) == "prices:{USD:" \o Q(tok) \o "}"

\* a price holder without the currency the code reads
EUR(tok) == "prices:{EUR:" \o Q(tok) \o "}"

\* one entry of a valueColumns list
Column(name, prices) == "{name:" \o Q(name) \o "," \o prices \o "}"

\* one entry of config.regions; key names its instance list
RegionEntry(id, key, items) ==
    "{region:" \o Q(id) \o "," \o key \o ":[" \o items \o "]}"

\* a whole feed text around its config.regions entries
Callback(regions) ==
    "/* Prices are subject to change. */\ncallback({vers:0.01,config:{"
    \o "currencies:[\"USD\"],regions:[" \o regions \o "]}});"

\* instance entry of an EC2 on-demand feed
Sizes(size, columns) ==
    "{type:\"generalCurrentGen\",sizes:[{size:" \o Q(size)
    \o ",valueColumns:[" \o columns \o "]}]}"

\* instance entry of a legacy reserved feed and of a Redshift on-demand feed
Tiers(size, columns) ==
    "{type:\"Standard Instances - Current Generation - Single-AZ\",tiers:[{size:"
    \o Q(size) \o ",valueColumns:[" \o columns \o "]}]}"

\* entry of the types list of a cache or relational on-demand feed
Types(name, prices) == "{tiers:[{name:" \o Q(name) \o "," \o prices \o "}]}"

\* one term with one purchase option, of an instance entry of a new-scheme
\* reserved feed
Term(term, option, columns) ==
    "{term:" \o Q(term) \o ",purchaseOptions:[{purchaseOption:" \o Q(option)
    \o ",valueColumns:[" \o columns \o "]}]}"

\* instance entry of a new-scheme reserved feed
Terms(type, terms) == "{type:" \o Q(type) \o ",terms:[" \o terms \o "]}"

\* the text that stands between the two comment blocks of "two_comments"
BETWEEN_COMMENTS == "callback({vers:0.01,config:{regions:[]}})"

\* the texts served, by name.  For each of the five feed shapes: "east" has
\* region us-east, "two" has regions eu-ireland and us-east with a token
\* "0" and a token without digits, "nousd" has a price holder without USD,
\* "mars" names a region no table knows.
FEED_TEXT ==
    ("od_sizes.east" :> Callback(RegionEntry("us-east", "instanceTypes",
        Sizes("t2.micro", Column("linux", USD("0.013")))))) @@
    ("od_sizes.two" :> Callback(
        RegionEntry("eu-ireland", "instanceTypes",
            Sizes("m3.large", Column("linux", USD("0")))) \o "," \o
        RegionEntry("us-east", "instanceTypes",
            Sizes("m3.large", Column("linux", USD("$0.140 per Hrs")) \o ","
                              \o Column("mswin", USD("N/A*")))))) @@
    ("od_sizes.nousd" :> Callback(RegionEntry("us-east", "instanceTypes",
        Sizes("t2.micro", Column("linux", EUR("0.011")))))) @@
    ("od_sizes.mars" :> Callback(RegionEntry("mars-1", "instanceTypes",
        Sizes("t2.micro", Column("linux", USD("0.013")))))) @@
    ("od_tiers.east" :> Callback(RegionEntry("us-east", "instanceTypes",
        Tiers("dw2.large", Column("ondemand", USD("0.250")))))) @@
    ("od_tiers.two" :> Callback(
        RegionEntry("eu-ireland", "instanceTypes",
            Tiers("dw1.xlarge", Column("ondemand", USD("0")))) \o "," \o
        RegionEntry("us-east", "instanceTypes",
            Tiers("dw1.xlarge", Column("ondemand", USD("$0.850 per Hrs")) \o ","
                                \o Column("other", USD("N/A")))))) @@
    ("od_tiers.nousd" :> Callback(RegionEntry("us-east", "instanceTypes",
        Tiers("dw2.large", Column("ondemand", EUR("0.225")))))) @@
    ("od_tiers.mars" :> Callback(RegionEntry("mars-1", "instanceTypes",
        Tiers("dw2.large", Column("ondemand", USD("0.250")))))) @@
    ("od_types.east" :> Callback(RegionEntry("us-east", "types",
        Types("cache.m1.small", USD("0.055"))))) @@
    ("od_types.two" :> Callback(
        RegionEntry("eu-ireland", "types", Types("db.t1.micro", USD("0")))
        \o "," \o
        RegionEntry("us-east", "types",
            Types("db.m1.small", USD("$0.090 per Hrs")) \o ","
            \o Types("db.m1.large", USD("N/A"))))) @@
    ("od_types.nousd" :> Callback(RegionEntry("us-east", "types",
        Types("cache.m1.small", EUR("0.050"))))) @@
    ("od_types.mars" :> Callback(RegionEntry("mars-1", "types",
        Types("cache.m1.small", USD("0.055"))))) @@
    ("od_types.scenario" :>
        "callback({config:{regions:[{region:\"us-east\",types:[{tiers:[{name:"
        \o "\"m1.small\",prices:{USD:\"$0.044 per Hrs\"}}]}]}]}})") @@
    ("ri_legacy.east" :> Callback(RegionEntry("us-east", "instanceTypes",
        Tiers("sm", Column("yrTerm1", USD("$100")) \o ","
                    \o Column("yearTerm1Hourly", USD("$0.012 per Hrs")))))) @@
    ("ri_legacy.two" :> Callback(
        RegionEntry("eu-ireland", "instanceTypes",
            Tiers("lg", Column("yrTerm3", USD("0")) \o ","
                        \o Column("yearTerm3Hourly", USD("N/A")))) \o "," \o
        RegionEntry("us-east", "instanceTypes",
            Tiers("xl", Column("yrTerm1", USD("1,120")))))) @@
    ("ri_legacy.nousd" :> Callback(RegionEntry("us-east", "instanceTypes",
        Tiers("sm", Column("yrTerm1", EUR("90")))))) @@
    ("ri_legacy.mars" :> Callback(RegionEntry("mars-1", "instanceTypes",
        Tiers("sm", Column("yrTerm1", USD("$100")))))) @@
    ("ri_v2.east" :> Callback(RegionEntry("us-east", "instanceTypes",
        Terms("t2.micro", Term("yrTerm1", "allUpfront",
            Column("upfront", USD("$151")) \o ","
            \o Column("monthlyStar", USD("730.0"))))))) @@
    ("ri_v2.two" :> Callback(
        RegionEntry("eu-ireland", "instanceTypes",
            Terms("m3.large", Term("yrTerm3", "partialUpfront",
                Column("upfront", USD("N/A")) \o ","
                \o Column("monthlyStar", USD("0"))))) \o "," \o
        RegionEntry("us-east", "instanceTypes",
            Terms("m3.large", Term("yrTerm1", "noUpfront",
                Column("upfront", USD("0")) \o ","
                \o Column("monthlyStar", USD("$36.50 per month"))))))) @@
    ("ri_v2.nousd" :> Callback(RegionEntry("us-east", "instanceTypes",
        Terms("t2.micro", Term("yrTerm1", "allUpfront",
            Column("upfront", EUR("140"))))))) @@
    ("ri_v2.mars" :> Callback(RegionEntry("mars-1", "instanceTypes",
        Terms("t2.micro", Term("yrTerm1", "allUpfront",
            Column("upfront", USD("$151"))))))) @@
    ("ri_legacy.alt" :> Callback(RegionEntry("us-east", "instanceTypes",
        Tiers("lg", Column("yrTerm1", USD("$200")) \o ","
                    \o Column("yrTerm1Hourly", USD("$0.020 per Hrs")) \o ","
                    \o Column("yrTerm3", USD("$300")) \o ","
                    \o Column("yrTerm3Hourly", USD("$0.010 per Hrs")))))) @@
    ("ri_v2.na" :> Callback(RegionEntry("us-east", "instanceTypes",
        Terms("t2.micro", Term("yrTerm1", "partialUpfront",
            Column("upfront", USD("N/A")) \o ","
            \o Column("monthlyStar", USD("N/A"))))))) @@
    ("ri_v2.three" :> Callback(RegionEntry("us-east", "instanceTypes",
        Terms("m3.large", Term("yrTerm3", "noUpfront",
            Column("upfront", USD("0")) \o ","
            \o Column("monthlyStar", USD("$73 per month"))))))) @@
    ("ri_v2.canon" :> Callback(RegionEntry("us-east-1", "instanceTypes",
        Terms("m3.xlarge", Term("yrTerm1", "allUpfront",
            Column("upfront", USD("$500")) \o ","
            \o Column("monthlyStar", USD("0"))))))) @@
    ("no_config" :> "callback({vers:0.01});") @@
    ("no_regions" :> "callback({vers:0.01,config:{rate:\"perhr\"}});") @@
    ("empty_regions" :> "callback({vers:0.01,config:{regions:[]}});") @@
    ("malformed" :> "callback({vers:0.01,config:{regions:[{region:") @@
    ("two_comments" :> "/* v1 */" \o BETWEEN_COMMENTS \o "/* end */") @@
    ("bare_regions" :> "callback({vers:0.01,config:{regions:[{region:"
        \o "\"us-west-2\"},{region:\"\"},{note:\"none\"}]}});")

\* the answer that is no text: urlopen raises
FETCH_ERROR == "fetch_error"

\* load_data on each text, computed once
PARSED == [p \in DOMAIN FEED_TEXT |-> load_data(Chars(FEED_TEXT[p]))] @@ <<>>

-----------------------------------------------------------------------------
(* Bounds *)

\* the feeds followed of each URL list: its first and its last URLs
MaxFeeds == 2

\* the feeds of one call that the site answers with anything but the
\* ordinary text of the expected shape
MaxOdd == 1

\* the longest price token tried character by character
MaxTokenLen == 3

-----------------------------------------------------------------------------
(* The calls *)

\* MaxFeeds URLs of a list, in the order of the list
Pick(list) ==
    IF Len(list) <= MaxFeeds THEN list
    ELSE LET last  == MaxFeeds \div 2
             first == MaxFeeds - last
         IN  SubSeq(list, 1, first)
             \o SubSeq(list, Len(list) - last + 1, Len(list))

\* Loop that takes the URLs from the last to the first
Loop_backwards(kind, list) ==
    [i \in 1..Len(Pick(list)) |->
        [u |-> Pick(list)[Len(Pick(list)) + 1 - i], kind |-> kind]]

\* the loop "for u in urls" of one normalizer, as [u, kind] to visit
Loop(kind, list) ==
    [i \in 1..Len(Pick(list)) |-> [u |-> Pick(list)[i], kind |-> kind]]

\* Feeds that has the RDS reserved operation visit urls_new before urls_old
Feeds_new_first(svc, op) ==
    CASE svc = "ec2" /\ op = "reserved" ->
            Loop("ec2_reserved", EC2_reserved_urls)
      [] svc = "ec2" /\ op = "ondemand" ->
            Loop("ec2_ondemand", EC2_ondemand_urls)
      [] svc = "elasticache" /\ op = "reserved" ->
            Loop("elc_reserved", ELC_reserved_urls)
      [] svc = "elasticache" /\ op = "ondemand" ->
            Loop("elc_ondemand", ELC_ondemand_urls)
      [] svc = "rds" /\ op = "reserved" ->
            Loop("rds_reserved_new", RDS_urls_new)
            \o Loop("rds_reserved_old", RDS_urls_old)
      [] svc = "rds" /\ op = "ondemand" ->
            Loop("rds_ondemand", RDS_ondemand_urls)
      [] svc = "redshift" /\ op = "reserved" ->
            Loop("rs_reserved", RS_reserved_urls)
      [] svc = "redshift" /\ op = "ondemand" ->
            Loop("rs_ondemand", RS_ondemand_urls)

\* the feeds a normalizer operation visits, in order
Feeds(svc, op) ==
    CASE svc = "ec2" /\ op = "reserved" ->
            Loop("ec2_reserved", EC2_reserved_urls)
      [] svc = "ec2" /\ op = "ondemand" ->
            Loop("ec2_ondemand", EC2_ondemand_urls)
      [] svc = "elasticache" /\ op = "reserved" ->
            Loop("elc_reserved", ELC_reserved_urls)
      [] svc = "elasticache" /\ op = "ondemand" ->
            Loop("elc_ondemand", ELC_ondemand_urls)
      [] svc = "rds" /\ op = "reserved" ->
            Loop("rds_reserved_old", RDS_urls_old)
            \o Loop("rds_reserved_new", RDS_urls_new)
      [] svc = "rds" /\ op = "ondemand" ->
            Loop("rds_ondemand", RDS_ondemand_urls)
      [] svc = "redshift" /\ op = "reserved" ->
            Loop("rs_reserved", RS_reserved_urls)
      [] svc = "redshift" /\ op = "ondemand" ->
            Loop("rs_ondemand", RS_ondemand_urls)

\* the body of the loop of each normalizer after load_data
fold(kind, acc, u, parsed) ==
    CASE kind = "ec2_reserved"     -> EC2_reserved_feed(acc, u, parsed)
      [] kind = "ec2_ondemand"     -> EC2_ondemand_feed(acc, u, parsed)
      [] kind = "elc_reserved"     -> ELC_reserved_feed(acc, u, parsed)
      [] kind = "elc_ondemand"     -> ELC_ondemand_feed(acc, u, parsed)
      [] kind = "rds_reserved_old" -> RDS_reserved_old_feed(acc, u, parsed)
      [] kind = "rds_reserved_new" -> RDS_reserved_new_feed(acc, u, parsed)
      [] kind = "rds_ondemand"     -> RDS_ondemand_feed(acc, u, parsed)
      [] kind = "rs_reserved"      -> RS_reserved_feed(acc, u, parsed)
      [] kind = "rs_ondemand"      -> RS_ondemand_feed(acc, u, parsed)

\* the shape of feed each loop expects
SHAPE ==
    ("ec2_reserved" :> "ri_v2") @@ ("ec2_ondemand" :> "od_sizes") @@
    ("elc_reserved" :> "ri_legacy") @@ ("elc_ondemand" :> "od_types") @@
    ("rds_reserved_old" :> "ri_legacy") @@ ("rds_reserved_new" :> "ri_v2") @@
    ("rds_ondemand" :> "od_types") @@
    ("rs_reserved" :> "ri_v2") @@ ("rs_ondemand" :> "od_tiers")

\* the ordinary answer to a feed of a kind: of a site with prices the text
\* of the shape the loop expects, of a bare site a text without regions
Ordinary(kind) ==
    IF site = "bare" THEN "empty_regions" ELSE SHAPE[kind] \o ".east"

\* texts without regions to fold
EMPTY_FEEDS == {"no_config", "no_regions", "empty_regions"}

\* the other answers: to a call on one service every other text of the
\* shape, a text without regions, a damaged text, a text between two
\* comment blocks, a text of region entries without instance lists, no
\* text; to a call on
\* the Aggregator, which visits every feed of every service, one of each
Odd(cls, kind) ==
    IF cls = "all"
    THEN {SHAPE[kind] \o ".two", "malformed", FETCH_ERROR}
    ELSE {SHAPE[kind] \o s : s \in {".two", ".nousd", ".mars"}}
         \cup (IF SHAPE[kind] = "od_types" THEN {"od_types.scenario"} ELSE {})
         \cup (IF SHAPE[kind] = "ri_legacy" THEN {"ri_legacy.alt"} ELSE {})
         \cup (IF SHAPE[kind] = "ri_v2"
               THEN {"ri_v2.na", "ri_v2.three", "ri_v2.canon"} ELSE {})
         \cup EMPTY_FEEDS
         \cup {"malformed", "two_comments", "bare_regions", FETCH_ERROR}

SERVICES == <<"ec2", "elasticache", "rds", "redshift">>

\* the normalizer calls of return_json, in the order it makes them
Calls(cls, u) ==
    IF cls # "all" THEN <<[service |-> cls, operation |-> u]>>
    ELSE IF u \in {"ondemand", "reserved"}
    THEN [i \in 1..4 |-> [service |-> SERVICES[i], operation |-> u]]
    ELSE [i \in 1..4 |-> [service |-> SERVICES[i], operation |-> "ondemand"]]
         \o [i \in 1..4 |-> [service |-> SERVICES[i], operation |-> "reserved"]]

\* the dictionary "result" of a normalizer
Document(op, regions) ==
    IF op = "ondemand"
    THEN [config |-> [currency |-> DEFAULT_CURRENCY, unit |-> "perhr"],
          regions |-> regions]
    ELSE [config |-> [currency |-> DEFAULT_CURRENCY], regions |-> regions]

\* ByService with two services exchanged
ByService_swapped(ds) ==
    [ec2 |-> ds[1].document, elasticache |-> ds[3].document,
     rds |-> ds[2].document, redshift |-> ds[4].document]

\* the four documents of one mode, by service
ByService(ds) ==
    [ec2 |-> ds[1].document, elasticache |-> ds[2].document,
     rds |-> ds[3].document, redshift |-> ds[4].document]

\* the value return_json hands to json.dumps
Composed(cls, u, ds) ==
    IF cls # "all" THEN ds[1].document
    ELSE IF u \in {"ondemand", "reserved"} THEN ByService(ds)
    ELSE [ondemand |-> ByService(SubSeq(ds, 1, 4)),
          reserved |-> ByService(SubSeq(ds, 5, 8))]

None == [t |-> "None"]

\* json.dumps(value): the JSON text, held as the value it writes
json_dumps(value) == [t |-> "str", json |-> value]

-----------------------------------------------------------------------------
(* The CSV export.  A row is the list handed to writer.writerow; the file   *)
(* is the rows in the order written.  The loops over a prices dictionary    *)
(* take its keys in the order of TERMS and OPTIONS.                         *)

\* if not v: return "" else: return v, of a price: None and 0.0 are both
\* false in Python.  A price cell holds a float or a str; the str s is
\* written [str |-> s] to keep it apart from the float
none_as_string(v) == IF v.null \/ v.n = 0 THEN [str |-> ""] ELSE v

TERMS == <<"1", "3">>

OPTIONS == <<"noUpfront", "partialUpfront", "allUpfront">>

\* for k in d, of a dictionary with keys among those of order
KeysOf(d, order) == SelectSeq(order, LAMBDA k : k \in DOMAIN d)

\* the rows Row(x) gives for the x of xs, one after the other
Rows(Row(_), xs) == Flatten([i \in 1..Len(xs) |-> Row(xs[i])], 1, Len(xs))

\* for r in data["regions"]: for it in r["instanceTypes"]: ...
PerOffering(Row(_, _), doc) ==
    Rows(LAMBDA r : Rows(LAMBDA it : Row(r.region, it), r.instanceTypes),
         doc.regions)

\* for term in it["prices"]: for po in it["prices"][term]: ...
PerOption(Row(_, _), it) ==
    Rows(LAMBDA term :
             Rows(LAMBDA po : <<Row(term, po)>>, KeysOf(it.prices[term], OPTIONS)),
         KeysOf(it.prices, TERMS))

\* for term in it["prices"]: ...
PerTerm(Row(_), it) == Rows(LAMBDA term : <<Row(term)>>, KeysOf(it.prices, TERMS))

\* the cells price and upfront of a row
PriceCells(cell) == <<none_as_string(cell.hourly), none_as_string(cell.upfront)>>

\* the rows EC2Prices.save_csv writes after the header
EC2_csv_rows(u, doc) ==
    IF u = "ondemand"
    THEN PerOffering(LAMBDA region_name, it :
             <<(<<region_name, it.type, it.os, none_as_string(it.price)>>)>>,
             doc)
    ELSE PerOffering(LAMBDA region_name, it :
             PerOption(LAMBDA term, po :
                 <<region_name, it.type, it.os, term, po>>
                 \o PriceCells(it.prices[term][po]), it),
             doc)

EC2_csv_header(u) ==
    IF u = "ondemand" THEN <<"region", "type", "os", "price">>
    ELSE <<"region", "type", "os", "term", "payment_type", "price", "upfront">>

\* the on-demand rows of one service in AllAWSPrices.save_csv: lead and
\* tail are what the branch "all" adds to the row of the branch "ondemand"
ALL_ondemand_rows(svc, doc, lead, tail) ==
    PerOffering(LAMBDA region_name, it :
        <<lead \o <<svc, region_name, it.type>>
          \o (IF svc = "rds" THEN <<it.multiaz, it.license, it.db>>
              ELSE <<"", "", "">>)
          \o <<(IF svc = "ec2" THEN it.os ELSE "")>>
          \o tail
          \o <<none_as_string(it.price)>>
          \o (IF tail = <<>> THEN <<>> ELSE <<"">>)>>,
        doc)

\* the row of an ElastiCache reserved offering that leaves out the
\* payment_type cell
ELC_reserved_row_short(lead, region_name, it, term) ==
    lead \o <<"elasticache", region_name, it.type, "", "", "", "",
              it.utilization, term>>
    \o PriceCells(it.prices[term])

\* the row of an ElastiCache reserved offering for a term
ELC_reserved_row(lead, region_name, it, term) ==
    lead \o <<"elasticache", region_name, it.type, "", "", "", "",
              it.utilization, term, "">>
    \o PriceCells(it.prices[term])

\* the reserved rows of one service in AllAWSPrices.save_csv
ALL_reserved_rows(svc, doc, lead) ==
    CASE svc = "ec2" ->
            PerOffering(LAMBDA region_name, it :
                PerOption(LAMBDA term, po :
                    lead \o <<"ec2", region_name, it.type, "", "", "", it.os,
                              "heavy", term, po>>
                    \o PriceCells(it.prices[term][po]), it),
                doc)
      [] svc = "elasticache" ->
            PerOffering(LAMBDA region_name, it :
                PerTerm(LAMBDA term : ELC_reserved_row(lead, region_name, it, term),
                        it),
                doc)
      [] svc = "rds" ->
            PerOffering(LAMBDA region_name, it :
                Rows(LAMBDA term :
                    IF DOMAIN it.prices[term]
                           \cap {"noUpfront", "partialUpfront", "allUpfront"} # {}
                    THEN Rows(LAMBDA po :
                             <<lead \o <<"rds", region_name, it.type, it.multiaz,
                                         it.license, it.db, "", it.utilization,
                                         term, po>>
                               \o PriceCells(it.prices[term][po])>>,
                             KeysOf(it.prices[term], OPTIONS))
                    ELSE <<lead \o <<"rds", region_name, it.type, it.multiaz,
                                     it.license, it.db, "", it.utilization,
                                     term, "">>
                           \o PriceCells(it.prices[term])>>,
                    KeysOf(it.prices, TERMS)),
                doc)
      [] svc = "redshift" ->
            PerOffering(LAMBDA region_name, it :
                PerOption(LAMBDA term, po :
                    lead \o <<"redshift", region_name, it.type, "", "", "", "",
                              "heavy", term, po>>
                    \o PriceCells(it.prices[term][po]), it),
                doc)

ALL_csv_header(u) ==
    IF u = "ondemand"
    THEN <<"service", "region", "type", "multiaz", "license", "db", "os", "price">>
    ELSE (IF u = "all" THEN <<"reserved_od">> ELSE <<>>)
         \o <<"service", "region", "type", "multiaz", "license", "db", "os",
              "utilization", "term", "payment_type", "price", "upfront">>

\* the rows AllAWSPrices.save_csv writes after the header, ds being the
\* documents in the order the normalizers were called
ALL_csv_rows(u, ds) ==
    CASE u = "ondemand" ->
            Rows(LAMBDA d : ALL_ondemand_rows(d.service, d.document, <<>>, <<>>), ds)
      [] u = "reserved" ->
            Rows(LAMBDA d : ALL_reserved_rows(d.service, d.document, <<>>), ds)
      [] u = "all" ->
            Rows(LAMBDA d : ALL_ondemand_rows(d.service, d.document, <<"ondemand">>,
                                              <<"", "", "">>),
                 SubSeq(ds, 1, 4))
            \o Rows(LAMBDA d : ALL_reserved_rows(d.service, d.document,
                                                 <<"reserved">>),
                    SubSeq(ds, 5, 8))

\* the header save_csv of ELCPrices, RDSPrices and RSPrices writes
SVC_csv_header(cls, u) ==
    CASE cls = "elasticache" /\ u = "ondemand" -> <<"region", "type", "price">>
      [] cls = "elasticache" /\ u = "reserved" ->
            <<"region", "type", "utilization", "term", "price", "upfront">>
      [] cls = "rds" /\ u = "ondemand" ->
            <<"region", "type", "multiaz", "license", "db", "price">>
      [] cls = "rds" /\ u = "reserved" ->
            <<"region", "type", "multiaz", "license", "db", "utilization",
              "term", "payment_type", "price", "upfront">>
      [] cls = "redshift" /\ u = "ondemand" -> <<"region", "type", "price">>
      [] cls = "redshift" /\ u = "reserved" ->
            <<"region", "type", "term", "payment_type", "price", "upfront">>

\* the rows save_csv of ELCPrices, RDSPrices and RSPrices writes after the
\* header
SVC_csv_rows(cls, u, doc) ==
    CASE cls \in {"elasticache", "redshift"} /\ u = "ondemand" ->
            PerOffering(LAMBDA region_name, it :
                <<(<<region_name, it.type, none_as_string(it.price)>>)>>, doc)
      [] cls = "elasticache" /\ u = "reserved" ->
            PerOffering(LAMBDA region_name, it :
                PerTerm(LAMBDA term :
                    <<region_name, it.type, it.utilization, term>>
                    \o PriceCells(it.prices[term]), it),
                doc)
      [] cls = "rds" /\ u = "ondemand" ->
            PerOffering(LAMBDA region_name, it :
                <<(<<region_name, it.type, it.multiaz, it.license, it.db,
                     none_as_string(it.price)>>)>>, doc)
      [] cls = "rds" /\ u = "reserved" ->
            PerOffering(LAMBDA region_name, it :
                Rows(LAMBDA term :
                    IF DOMAIN it.prices[term]
                           \cap {"noUpfront", "partialUpfront", "allUpfront"} # {}
                    THEN Rows(LAMBDA po :
                             <<(<<region_name, it.type, it.multiaz, it.license,
                                  it.db, it.utilization, term, po>>
                                \o PriceCells(it.prices[term][po]))>>,
                             KeysOf(it.prices[term], OPTIONS))
                    ELSE <<(<<region_name, it.type, it.multiaz, it.license,
                              it.db, it.utilization, term, "">>
                            \o PriceCells(it.prices[term]))>>,
                    KeysOf(it.prices, TERMS)),
                doc)
      [] cls = "redshift" /\ u = "reserved" ->
            PerOffering(LAMBDA region_name, it :
                PerOption(LAMBDA term, po :
                    <<region_name, it.type, term, po>>
                    \o PriceCells(it.prices[term][po]), it),
                doc)

\* what save_csv of a class writes to the file it opens
csv_file(cls, u, ds) ==
    IF cls = "all" THEN <<ALL_csv_header(u)>> \o ALL_csv_rows(u, ds)
    ELSE IF cls = "ec2" THEN <<EC2_csv_header(u)>> \o EC2_csv_rows(u, ds[1].document)
    ELSE <<SVC_csv_header(cls, u)>> \o SVC_csv_rows(cls, u, ds[1].document)

-----------------------------------------------------------------------------
(* The state *)

vars ==
    <<site, call, pc, pending, docs, service, operation, urls, data, result_regions,
      result_regions_index, outcome, error, retval, fetched, odd, token, price,
      previous, file>>

frame == <<service, operation, urls, data, result_regions, result_regions_index>>

CLASSES == {"ec2", "elasticache", "rds", "redshift", "all"}

\* the arguments tried: the three the code knows and one it does not
ARGUMENTS == {"ondemand", "reserved", "all", "hourly"}

NoData == [t |-> "lit", v |-> Chars("null")]

Init ==
    /\ site \in {"priced", "bare"}
    /\ call \in [cls : CLASSES, u : ARGUMENTS]
    /\ pc = "called"
    /\ pending = <<>>
    /\ docs = <<>>
    /\ service = ""
    /\ operation = ""
    /\ urls = <<>>
    /\ data = NoData
    /\ result_regions = <<>>
    /\ result_regions_index = <<>>
    /\ outcome = "none"
    /\ error = ""
    /\ retval = None
    /\ fetched = <<>>
    /\ odd = 0
    /\ token = <<>>
    /\ price = Null
    /\ previous = <<>>
    /\ file = <<>>

\* Raise_ that hands the caller what was gathered before the exception
Raise_partial(e) ==
    /\ pc' = "done"
    /\ outcome' = "returned"
    /\ error' = e
    /\ retval' = json_dumps(docs)

\* an exception leaves the call: nothing is returned
Raise_(e) ==
    /\ pc' = "done"
    /\ outcome' = "raised"
    /\ error' = e
    /\ UNCHANGED retval

\* return_json(u) up to its first normalizer call: an argument that is not
\* known prints a message and falls off the end of the method
return_json ==
    /\ pc = "called"
    /\ IF call.u \in (IF call.cls = "all"
                      THEN {"ondemand", "reserved", "all"}
                      ELSE {"ondemand", "reserved"})
       THEN /\ pending' = Calls(call.cls, call.u)
            /\ pc' = "enter"
            /\ UNCHANGED <<outcome, retval>>
       ELSE /\ pc' = "done"
            /\ outcome' = "returned"
            /\ retval' = None
            /\ UNCHANGED pending
    /\ UNCHANGED <<site, previous, file, call, docs, frame, error, fetched, odd, token, price>>

\* get_instances_prices without "result_regions = []" and the index = {}:
\* the lists of the call before are taken up again
get_instances_prices_stale ==
    /\ pc = "enter"
    /\ service' = Head(pending).service
    /\ operation' = Head(pending).operation
    /\ urls' = Feeds(Head(pending).service, Head(pending).operation)
    /\ pending' = Tail(pending)
    /\ pc' = "fetch"
    /\ UNCHANGED <<site, previous, file, call, docs, data, outcome, error, retval,
                   fetched, odd, token, price, result_regions,
                   result_regions_index>>

\* get_ondemand_instances_prices or get_reserved_instances_prices up to its
\* first load_data: the URL lists, result_regions = [], the index = {}
get_instances_prices ==
    /\ pc = "enter"
    /\ service' = Head(pending).service
    /\ operation' = Head(pending).operation
    /\ urls' = Feeds(Head(pending).service, Head(pending).operation)
    /\ result_regions' = <<>>
    /\ result_regions_index' = <<>>
    /\ pending' = Tail(pending)
    /\ pc' = "fetch"
    /\ UNCHANGED <<site, previous, file, call, docs, data, outcome, error, retval, fetched, odd,
                   token, price>>

\* data = self.load_data(u): urlopen raises, or json.loads raises on the
\* repaired text, or the parsed feed is at hand
fetch_feed ==
    /\ pc = "fetch"
    /\ urls # <<>>
    /\ \E p \in {Ordinary(Head(urls).kind)} \cup Odd(call.cls, Head(urls).kind) :
          /\ p # Ordinary(Head(urls).kind) => odd < MaxOdd
          /\ previous # <<>> => p = previous[1].fetched[Len(fetched) + 1].p
          /\ odd' = IF p = Ordinary(Head(urls).kind) THEN odd ELSE odd + 1
          /\ fetched' = Append(fetched, [service |-> service,
                                         operation |-> operation,
                                         u |-> Head(urls).u,
                                         kind |-> Head(urls).kind,
                                         p |-> p])
          /\ IF p = FETCH_ERROR
             THEN Raise_("URLError") /\ UNCHANGED data
             ELSE IF ~PARSED[p].ok
             THEN Raise_("ValueError") /\ UNCHANGED data
             ELSE /\ data' = PARSED[p].val
                  /\ pc' = "fold"
                  /\ UNCHANGED <<outcome, error, retval>>
    /\ UNCHANGED <<site, previous, file, call, pending, docs, service, operation, urls,
                   result_regions, result_regions_index, token, price>>

\* the rest of the body of the loop: the feed at hand is folded into
\* result_regions, or an exception leaves the normalizer and its caller
fold_feed ==
    /\ pc = "fold"
    /\ LET acc == fold(Head(urls).kind,
                       [err |-> "", regions |-> result_regions,
                        index |-> result_regions_index],
                       Head(urls).u, data)
       IN  IF acc.err # ""
           THEN /\ Raise_(acc.err)
                /\ UNCHANGED <<urls, result_regions, result_regions_index>>
           ELSE /\ result_regions' = acc.regions
                /\ result_regions_index' = acc.index
                /\ urls' = Tail(urls)
                /\ pc' = "fetch"
                /\ UNCHANGED <<outcome, error, retval>>
    /\ UNCHANGED <<site, previous, file, call, pending, docs, service, operation, data, fetched,
                   odd, token, price>>

\* return result, back in return_json
return_result ==
    /\ pc = "fetch"
    /\ urls = <<>>
    /\ docs' = Append(docs, [service |-> service, operation |-> operation,
                              document |-> Document(operation, result_regions)])
    /\ pc' = IF pending = <<>> THEN "dumps" ELSE "enter"
    /\ UNCHANGED <<site, previous, file, call, pending, frame, outcome, error, retval, fetched, odd,
                   token, price>>

\* return json.dumps(data), or json.dumps(res) of the Aggregator
return_dumps ==
    /\ pc = "dumps"
    /\ retval' = json_dumps(Composed(call.cls, call.u, docs))
    /\ outcome' = "returned"
    /\ pc' = "done"
    /\ UNCHANGED <<site, previous, file, call, pending, docs, frame, error, fetched, odd, token,
                   price>>

Next ==
    \/ return_json
    \/ get_instances_prices
    \/ fetch_feed
    \/ fold_feed
    \/ return_result
    \/ return_dumps

Spec == Init /\ [][Next]_vars

\* return_json(u) is called once more on the same instance, the site
\* answering each feed as it did: what the call before left in the locals
\* of the normalizers is still there when the call starts
return_json_again ==
    /\ pc = "done"
    /\ outcome = "returned"
    /\ previous = <<>>
    /\ previous' = <<[retval |-> retval, docs |-> docs, fetched |-> fetched]>>
    /\ pc' = "called"
    /\ docs' = <<>>
    /\ fetched' = <<>>
    /\ odd' = 0
    /\ outcome' = "none"
    /\ retval' = None
    /\ UNCHANGED <<site, file, call, pending, frame, error, token, price>>

NextAgain ==
    \/ return_json
    \/ get_instances_prices
    \/ fetch_feed
    \/ fold_feed
    \/ return_result
    \/ return_dumps
    \/ return_json_again

SpecAgain == Init /\ [][NextAgain]_vars

-----------------------------------------------------------------------------
(* save_csv(u) of the five classes *)

InitCsv == Init

\* save_csv that opens the file and writes the header before it calls the
\* normalizers
save_csv_opening_first ==
    /\ pc = "called"
    /\ IF call.u \in (IF call.cls = "all"
                      THEN {"ondemand", "reserved", "all"}
                      ELSE {"ondemand", "reserved"})
       THEN /\ pending' = Calls(call.cls, call.u)
            /\ pc' = "enter"
            /\ file' = <<(IF call.cls = "all" THEN ALL_csv_header(call.u)
                           ELSE IF call.cls = "ec2" THEN EC2_csv_header(call.u)
                           ELSE SVC_csv_header(call.cls, call.u))>>
            /\ UNCHANGED <<outcome, retval>>
       ELSE /\ pc' = "done"
            /\ outcome' = "returned"
            /\ retval' = None
            /\ UNCHANGED <<pending, file>>
    /\ UNCHANGED <<site, previous, call, docs, frame, error, fetched, odd,
                   token, price>>

\* save_csv(u) up to its first normalizer call: an argument that is not
\* known prints a message, and no file is opened
save_csv ==
    /\ pc = "called"
    /\ IF call.u \in (IF call.cls = "all"
                      THEN {"ondemand", "reserved", "all"}
                      ELSE {"ondemand", "reserved"})
       THEN /\ pending' = Calls(call.cls, call.u)
            /\ pc' = "enter"
            /\ UNCHANGED <<outcome, retval>>
       ELSE /\ pc' = "done"
            /\ outcome' = "returned"
            /\ retval' = None
            /\ UNCHANGED pending
    /\ UNCHANGED <<site, previous, file, call, docs, frame, error, fetched, odd,
                   token, price>>

\* the rest of save_csv, the normalizers having returned: the file is
\* opened, the header and the rows are written
write_csv ==
    /\ pc = "dumps"
    /\ file' = csv_file(call.cls, call.u, docs)
    /\ retval' = None
    /\ outcome' = "returned"
    /\ pc' = "done"
    /\ UNCHANGED <<site, previous, call, pending, docs, frame, error, fetched, odd,
                   token, price>>

NextCsv ==
    \/ save_csv
    \/ get_instances_prices
    \/ fetch_feed
    \/ fold_feed
    \/ return_result
    \/ write_csv

SpecCsv == InitCsv /\ [][NextCsv]_vars

-----------------------------------------------------------------------------
(* The price token parser on its own *)

\* the characters tokens are made of: digits, the point, and noise
TOKEN_CHARS == {"0", "5", ".", "$", " "}

\* tokens of feeds as the site writes them
TOKEN_EXAMPLES ==
    {Chars("$0.012 per Hrs"), Chars("N/A"), Chars("0"), Chars("730.0"),
     Chars("$0.012 per Hrs."), Chars("1,120")}

InitPrice ==
    /\ token \in TOKEN_EXAMPLES
                 \cup UNION {[1..n -> TOKEN_CHARS] : n \in 0..MaxTokenLen}
    /\ pc = "token"
    /\ site = "priced"
    /\ call = [cls |-> "", u |-> ""]
    /\ pending = <<>>
    /\ docs = <<>>
    /\ service = ""
    /\ operation = ""
    /\ urls = <<>>
    /\ data = NoData
    /\ result_regions = <<>>
    /\ result_regions_index = <<>>
    /\ outcome = "none"
    /\ error = ""
    /\ retval = None
    /\ fetched = <<>>
    /\ odd = 0
    /\ price = Null
    /\ previous = <<>>
    /\ file = <<>>

\* price = None; try: price = float(re.sub(...)) except ValueError: ...
price_token_parser ==
    /\ pc = "token"
    /\ price' = parse_price(token)
    /\ pc' = "parsed"
    /\ UNCHANGED <<site, previous, file, call, pending, docs, frame, outcome, error, retval, fetched,
                   odd, token>>

NextPrice == price_token_parser

SpecPrice == InitPrice /\ [][NextPrice]_vars

-----------------------------------------------------------------------------
(* What the claims speak of *)

\* the answers fetched by the normalizer call that returned d
AnswersOf(d) ==
    SelectSeq(fetched, LAMBDA f : f.service = d.service
                                  /\ f.operation = d.operation)

\* the feeds of all the normalizer operations, as [u, kind]
ALL_FEEDS ==
    LET cs == Calls("all", "all")
    IN  UNION {{Feeds(cs[i].service, cs[i].operation)[k] :
                   k \in 1..Len(Feeds(cs[i].service, cs[i].operation))} :
               i \in 1..Len(cs)}

\* the texts that answer a feed of a kind and that json.loads accepts
Loadable(kind) ==
    {p \in ({SHAPE[kind] \o ".east"} \cup Odd(SERVICES[1], kind))
              \cap DOMAIN FEED_TEXT : PARSED[p].ok}

\* what the loop body makes of each answer to each feed on an empty
\* document, computed once
ALONE ==
    [x \in UNION {{<<f.kind, f.u, p>> : p \in Loadable(f.kind)} : f \in ALL_FEEDS} |->
        fold(x[1], [err |-> "", regions |-> <<>>, index |-> <<>>], x[2],
             PARSED[x[3]].val).regions] @@ <<>>

\* what the loop body makes of one answer on an empty document
Alone(f) == ALONE[<<f.kind, f.u, f.p>>]

\* the region names of a list of RegionPricing entries
NamesOf(regions) == {regions[j].region : j \in 1..Len(regions)}

\* the offerings of the entries named R, in order
OfferingsOf(regions, R) ==
    LET es == SelectSeq(regions, LAMBDA e : e.region = R)
    IN  Flatten([j \in 1..Len(es) |-> es[j].instanceTypes], 1, Len(es))

\* the feeds among fs that hold a region named R
Holding(fs, R) == {k \in 1..Len(fs) : R \in NamesOf(Alone(fs[k]))}

\* C1: in a reserved document every region that its feeds hold has exactly
\* one RegionPricing, whose instanceTypes are the offerings of all the feeds
\* for that region, feed after feed; an on-demand document is the
\* RegionPricing entries of its feeds one after the other, so a region that
\* two feeds hold has two entries, one per feed.
C1_Accumulation ==
    \A i \in 1..Len(docs) :
        LET fs      == AnswersOf(docs[i])
            alone   == [k \in 1..Len(fs) |-> Alone(fs[k])]
            regions == docs[i].document.regions
        IN  IF docs[i].operation = "reserved"
            THEN \A R \in NamesOf(regions)
                          \cup UNION {NamesOf(alone[k]) : k \in 1..Len(fs)} :
                    /\ Cardinality({j \in 1..Len(regions) :
                                       regions[j].region = R}) = 1
                    /\ OfferingsOf(regions, R)
                         = Flatten([k \in 1..Len(fs) |-> OfferingsOf(alone[k], R)],
                                   1, Len(fs))
            ELSE regions = Flatten(alone, 1, Len(fs))

\* the Aggregator has returned both modes of the four services, and in each
\* of the eight documents some region is held by two feeds: merged into one
\* entry with the offerings of both (reserved), or entered twice (on-demand)
C1_Witness ==
    /\ pc = "done"
    /\ outcome = "returned"
    /\ call = [cls |-> "all", u |-> "all"]
    /\ Len(docs) = 8
    /\ \A i \in 1..Len(docs) :
          LET fs      == AnswersOf(docs[i])
              regions == docs[i].document.regions
          IN  \E R \in NamesOf(regions) :
                 /\ Cardinality(Holding(fs, R)) >= 2
                 /\ IF docs[i].operation = "reserved"
                    THEN Len(OfferingsOf(regions, R)) >= 2
                    ELSE Cardinality({j \in 1..Len(regions) :
                                         regions[j].region = R}) >= 2

\* C2 as stated: in every document returned by any normalizer operation,
\* on-demand or reserved, no two RegionPricing entries have the same region.
C2_UniqueRegions ==
    \A i \in 1..Len(docs) :
        LET regions == docs[i].document.regions
        IN  \A j, k \in 1..Len(regions) :
               regions[j].region = regions[k].region => j = k

\* C2 amended: in every document returned by a reserved normalizer
\* operation no two RegionPricing entries have the same region.
C2_ReservedUniqueRegions ==
    \A i \in 1..Len(docs) :
        docs[i].operation = "reserved" =>
            LET regions == docs[i].document.regions
            IN  \A j, k \in 1..Len(regions) :
                   regions[j].region = regions[k].region => j = k

\* a reserved document of two regions is returned, one of them held by two
\* feeds and carrying the offerings of both
C2_Witness ==
    \E i \in 1..Len(docs) :
        LET regions == docs[i].document.regions
        IN  /\ docs[i].operation = "reserved"
            /\ call.cls # "all"
            /\ Len(regions) = 2
            /\ \E R \in NamesOf(regions) :
                  /\ Cardinality(Holding(AnswersOf(docs[i]), R)) >= 2
                  /\ Len(OfferingsOf(regions, R)) >= 2

\* the answers that carry a price holder without the currency read
NO_CURRENCY == {SHAPE[k] \o ".nousd" : k \in DOMAIN SHAPE}

\* the answers that name a region that is no key of the region table
UNKNOWN_REGION == {SHAPE[k] \o ".mars" : k \in DOMAIN SHAPE}

\* the last answer fetched has been folded, or has ended the call
Folded == fetched # <<>> /\ pc # "fold"

\* C3: a price cell is null exactly when the feed supplied no token for it:
\* a feed entry without a token in the currency read leaves the operation
\* to complete (with that cell null), and a token "0" gives 0.0, not null.
C3_NullWithoutToken ==
    /\ (Folded /\ fetched[Len(fetched)].p \in NO_CURRENCY)
           => outcome # "raised"
    /\ parse_price(Chars("0")) = [null |-> FALSE, n |-> 0, d |-> 1]

\* C4: the parser gives the number written by what is left of the token
\* once every character but digits and "." is removed, and null when what
\* is left has no digit or more than one "."; "$0.012 per Hrs" gives
\* 0.012, "N/A" gives null and "0" gives 0.0.
C4_PriceToken ==
    pc = "parsed" =>
        LET rest   == SelectSeq(token, LAMBDA c : c \in Digits \cup {"."})
            points == {j \in 1..Len(rest) : rest[j] = "."}
            number == Cardinality(points) <= 1
                      /\ \E j \in 1..Len(rest) : rest[j] \in Digits
            at     == IF points = {} THEN Len(rest) + 1
                      ELSE CHOOSE j \in points : TRUE
            whole  == ToInt(SubSeq(rest, 1, at - 1))
            part   == SubSeq(rest, at + 1, Len(rest))
        IN  /\ price.null <=> ~number
            /\ number => price.n * Pow10(Len(part))
                           = price.d * (whole * Pow10(Len(part)) + ToInt(part))
            /\ token = Chars("$0.012 per Hrs")
                  => price = [null |-> FALSE, n |-> 3, d |-> 250]
            /\ token = Chars("N/A") => price = Null
            /\ token = Chars("0") => price = [null |-> FALSE, n |-> 0, d |-> 1]

\* the parser has given 0.012 for "$0.012 per Hrs"
C4_Witness ==
    /\ pc = "parsed"
    /\ token = Chars("$0.012 per Hrs")
    /\ price = [null |-> FALSE, n |-> 3, d |-> 250]

\* the loops of the new reserved scheme
NEW_SCHEME == {"ec2_reserved", "rds_reserved_new", "rs_reserved"}

\* the elements of a sequence
Range(s) == {s[j] : j \in 1..Len(s)}

\* the list under a key, empty without the key
ListAt(d, key) == IF Has(d, key) THEN Range(Items(d.v[key])) ELSE {}

\* the price columns of a new-scheme feed, each with the region, the type,
\* the term and the purchase option it stands under
Leaves(parsed) ==
    IF ~has_regions(parsed) THEN {}
    ELSE UNION {UNION {UNION {UNION {
            {[region |-> Text(r.v["region"]),
              type   |-> Text(it.v["type"]),
              term   |-> Text(s.v["term"]),
              option |-> Text(o.v["purchaseOption"]),
              name   |-> Text(c.v["name"]),
              tok    |-> c.v["prices"].v[DEFAULT_CURRENCY].v] :
                c \in ListAt(o, "valueColumns")} :
                o \in ListAt(s, "purchaseOptions")} :
                s \in ListAt(it, "terms")} :
                it \in ListAt(r, "instanceTypes")} :
                r \in ListAt(parsed.v["config"], "regions")}

\* C5: in the documents of the new-scheme reserved normalizers, for every
\* monthlyStar column of a feed the hourly of its (term, option) cell times
\* 730 is the parsed monthlyStar value, and for every upfront column the
\* upfront of the cell is the parsed value itself.
C5_MonthlyToHourly ==
    \A i \in 1..Len(docs) :
        \A f \in Range(AnswersOf(docs[i])) :
            f.kind \in NEW_SCHEME =>
                \A leaf \in Leaves(PARSED[f.p].val) :
                    (leaf.term \in {"yrTerm1", "yrTerm3"}
                     /\ leaf.name \in {"monthlyStar", "upfront"}) =>
                    \E o \in Range(OfferingsOf(docs[i].document.regions,
                                               leaf.region)) :
                        /\ o.type = leaf.type
                        /\ LET t    == IF leaf.term = "yrTerm1" THEN "1" ELSE "3"
                               cell == o.prices[t][leaf.option]
                               p    == parse_price(leaf.tok)
                           IN  IF leaf.name = "upfront"
                               THEN cell.upfront = p
                               ELSE /\ ~p.null
                                    /\ ~cell.hourly.null
                                    /\ cell.hourly.n * p.d * 730
                                         = p.n * cell.hourly.d

\* a Redshift reserved document holds the offering of a feed whose
\* monthlyStar is "730.0" and whose upfront is "$151": hourly 1.0, upfront 151
C5_Witness ==
    \E i \in 1..Len(docs) :
        /\ docs[i].service = "redshift"
        /\ docs[i].operation = "reserved"
        /\ \E o \in Range(OfferingsOf(docs[i].document.regions, "us-east")) :
              o.prices["1"].allUpfront
                  = [hourly  |-> [null |-> FALSE, n |-> 1, d |-> 1],
                     upfront |-> [null |-> FALSE, n |-> 151, d |-> 1]]

\* C6: every region value of every document is a value of the region
\* table, and a feed naming a region that is no key of the table aborts
\* the operation.
C6_RegionsResolved ==
    /\ \A i \in 1..Len(docs) :
          NamesOf(docs[i].document.regions)
              \subseteq Range(REGIONS)
    /\ (Folded /\ fetched[Len(fetched)].p \in UNKNOWN_REGION)
           => outcome = "raised"

\* the number of feeds the call visits when nothing stops it
FeedsOf(cls, u) ==
    LET cs == Calls(cls, u)
    IN  Len(Flatten([i \in 1..Len(cs) |-> Feeds(cs[i].service, cs[i].operation)],
                    1, Len(cs)))

\* the arguments return_json of the class knows
KnownCall ==
    call.u \in (IF call.cls = "all" THEN {"ondemand", "reserved", "all"}
                ELSE {"ondemand", "reserved"})

\* answers that are well formed for the loop that reads them
SOUND ==
    {SHAPE[k] \o s : k \in DOMAIN SHAPE, s \in {".east", ".two"}}
    \cup EMPTY_FEEDS

\* C7: folding a feed whose parsed payload has no config, no config.regions
\* or an empty config.regions leaves the region list and its index as they
\* were, raises nothing and goes on to the next feed; a call whose answers
\* are all such feeds or well-formed ones visits every feed and returns
\* every document.
C7_EmptyContribution ==
    /\ [][(pc = "fold" /\ ~has_regions(data))
             => /\ result_regions' = result_regions
                /\ result_regions_index' = result_regions_index
                /\ outcome' = "none"
                /\ error' = ""
                /\ pc' = "fetch"
                /\ urls' = Tail(urls)]_vars
    /\ []((/\ pc = "done"
           /\ KnownCall
           /\ \A k \in 1..Len(fetched) : fetched[k].p \in SOUND)
             => /\ outcome = "returned"
                /\ Len(fetched) = FeedsOf(call.cls, call.u)
                /\ Len(docs) = Len(Calls(call.cls, call.u)))

\* a call on one service of a site with prices has returned: the first feed
\* had no config, a later one had regions, and the document holds just the
\* regions of the later one
C7_Witness ==
    /\ pc = "done"
    /\ outcome = "returned"
    /\ site = "priced"
    /\ call.cls # "all"
    /\ Len(fetched) >= 2
    /\ fetched[1].p = "no_config"
    /\ has_regions(PARSED[fetched[Len(fetched)].p].val)
    /\ Len(docs) = 1
    /\ docs[1].document.regions = Alone(fetched[Len(fetched)])
    /\ docs[1].document.regions # <<>>

\* C8: a feed that cannot be fetched or whose repaired text cannot be
\* parsed is the last feed the call visits: the call has raised and has
\* returned nothing, whatever documents were complete before it.
C8_FetchFailureAborts ==
    \A k \in 1..Len(fetched) :
        (fetched[k].p = FETCH_ERROR \/ ~PARSED[fetched[k].p].ok)
            => /\ k = Len(fetched)
               /\ pc = "done"
               /\ outcome = "raised"
               /\ error \in {"URLError", "ValueError"}
               /\ retval = None

\* the Aggregator had complete documents of services at hand when a feed of
\* a later service came damaged: it raised and returned nothing
C8_Witness ==
    /\ call.cls = "all"
    /\ Len(docs) >= 1
    /\ docs[1].document.regions # <<>>
    /\ fetched # <<>>
    /\ fetched[Len(fetched)].p = "malformed"
    /\ outcome = "raised"
    /\ retval = None

\* C9: the on-demand normalizer of a service whose on-demand feeds have the
\* region / types / tiers layout, given the scenario payload as the only
\* feed with regions, returns a document of exactly one region, named
\* "us-east-1", with exactly one offering, of type "m1.small" and price
\* 0.044.
C9_Scenario ==
    (/\ pc = "done"
     /\ call.cls \in {"elasticache", "rds"}
     /\ call.u = "ondemand"
     /\ Cardinality({k \in 1..Len(fetched) :
                         fetched[k].p = "od_types.scenario"}) = 1
     /\ \A k \in 1..Len(fetched) :
            fetched[k].p \in {"od_types.scenario"} \cup EMPTY_FEEDS)
        => /\ outcome = "returned"
           /\ retval.t = "str"
           /\ LET regions == retval.json.regions
              IN  /\ Len(regions) = 1
                  /\ regions[1].region = "us-east-1"
                  /\ Len(regions[1].instanceTypes) = 1
                  /\ regions[1].instanceTypes[1].type = "m1.small"
                  /\ regions[1].instanceTypes[1].price
                       = [null |-> FALSE, n |-> 11, d |-> 250]

\* the ElastiCache on-demand normalizer has returned after reading the
\* scenario payload as its last feed
C9_Witness ==
    /\ pc = "done"
    /\ outcome = "returned"
    /\ call = [cls |-> "elasticache", u |-> "ondemand"]
    /\ site = "bare"
    /\ fetched[Len(fetched)].p = "od_types.scenario"
    /\ Len(retval.json.regions) = 1

\* the document the normalizer of a service returned for a mode
Returned(svc, mode) ==
    {docs[i].document : i \in {j \in 1..Len(docs) :
                                  /\ docs[j].service = svc
                                  /\ docs[j].operation = mode}}

\* x maps exactly the four services to the documents returned for the mode
FourServices(x, mode) ==
    /\ DOMAIN x = Range(SERVICES)
    /\ \A svc \in Range(SERVICES) : Returned(svc, mode) = {x[svc]}

\* C10: what the Aggregator returns for one mode maps exactly the four
\* service keys to the documents the normalizers of the services returned
\* for that mode, and for both modes maps exactly "ondemand" and "reserved"
\* to such mappings.
C10_Composition ==
    (pc = "done" /\ call.cls = "all" /\ KnownCall /\ outcome = "returned")
        => /\ retval.t = "str"
           /\ IF call.u = "all"
              THEN /\ DOMAIN retval.json = {"ondemand", "reserved"}
                   /\ FourServices(retval.json.ondemand, "ondemand")
                   /\ FourServices(retval.json.reserved, "reserved")
              ELSE FourServices(retval.json, call.u)

\* the Aggregator has returned both modes, the eight documents not all alike
C10_Witness ==
    /\ pc = "done"
    /\ outcome = "returned"
    /\ call = [cls |-> "all", u |-> "all"]
    /\ Len(docs) = 8
    /\ retval.json.ondemand.elasticache # retval.json.ondemand.rds
    /\ retval.json.reserved.ec2 # retval.json.reserved.redshift


\* C11: a second call of the same operation on the same instance, the feeds
\* answering as they did, returns what the first call returned, document
\* for document.
C11_SameDocumentTwice ==
    (pc = "done" /\ previous # <<>>)
        => /\ outcome = "returned"
           /\ retval = previous[1].retval
           /\ docs = previous[1].docs
           /\ fetched = previous[1].fetched

\* the Aggregator has returned both modes twice, with regions in all eight
\* documents
C11_Witness ==
    /\ pc = "done"
    /\ previous # <<>>
    /\ call = [cls |-> "all", u |-> "all"]
    /\ outcome = "returned"
    /\ Len(docs) = 8
    /\ \A i \in 1..8 : docs[i].document.regions # <<>>
    /\ retval = previous[1].retval


\* the payment options a row is written for under a term: none for the
\* flat cell of a legacy offering
OptionsAt(cell) == IF DOMAIN cell = {"hourly", "upfront"} THEN {""} ELSE DOMAIN cell

\* the (document, region, offering, term, payment option) leaves of documents
CsvLeaves(ds) ==
    UNION {UNION {UNION {UNION {
        {<<i, j, k, t, po>> :
            po \in OptionsAt(ds[i].document.regions[j].instanceTypes[k].prices[t])}
        : t \in DOMAIN ds[i].document.regions[j].instanceTypes[k].prices}
        : k \in 1..Len(ds[i].document.regions[j].instanceTypes)}
        : j \in 1..Len(ds[i].document.regions)}
        : i \in 1..Len(ds)}

\* the columns of the combined reserved export a service has nothing for
BLANK_COLUMNS ==
    ("ec2" :> {4, 5, 6}) @@ ("elasticache" :> {4, 5, 6, 7})
    @@ ("rds" :> {7}) @@ ("redshift" :> {4, 5, 6, 7})

C13_ReturnsString ==
    (pc = "done" /\ outcome = "returned")
        => /\ retval.t = "str"
           /\ KnownCall => retval = json_dumps(Composed(call.cls, call.u, docs))
           /\ ~KnownCall => fetched = <<>>


\* the cell c is what the claim has for the price v: blank for None, the
\* number otherwise
BlankIfNone(c, v) == IF v.null THEN c = [str |-> ""] ELSE c = v

\* the offerings of a document with the region of each, in document order
OfferingsIn(doc) ==
    Flatten([j \in 1..Len(doc.regions) |->
                [k \in 1..Len(doc.regions[j].instanceTypes) |->
                    [region |-> doc.regions[j].region,
                     it |-> doc.regions[j].instanceTypes[k]]]],
            1, Len(doc.regions))

\* C14: in the file EC2Prices.save_csv writes, a price cell is blank when
\* the price of the document is None and holds the price unchanged
\* otherwise, 0.0 included: on-demand one row per offering, reserved one row
\* per term and payment option of an offering.
C14_BlankOnlyForNone ==
    (pc = "done" /\ outcome = "returned" /\ call.cls = "ec2" /\ file # <<>>)
        => LET offers == OfferingsIn(docs[1].document)
           IN  IF call.u = "ondemand"
               THEN /\ Len(file) = Len(offers) + 1
                    /\ \A i \in 1..Len(offers) :
                          BlankIfNone(file[i + 1][4], offers[i].it.price)
               ELSE \A i \in 2..Len(file) :
                       \E o \in Range(offers) :
                          /\ <<o.region, o.it.type, o.it.os>> = SubSeq(file[i], 1, 3)
                          /\ BlankIfNone(file[i][6],
                                         o.it.prices[file[i][4]][file[i][5]].hourly)
                          /\ BlankIfNone(file[i][7],
                                         o.it.prices[file[i][4]][file[i][5]].upfront)


\* the elements of a sequence in the order of their first occurrence
FirstSeen(s) ==
    LET firsts == SelectSeq([i \in 1..Len(s) |-> <<i, s[i]>>],
                            LAMBDA x : \A j \in 1..(x[1] - 1) : s[j] # x[2])
    IN  [i \in 1..Len(firsts) |-> firsts[i][2]]

\* the region names of a list of entries, in order
NameSeq(regions) == [j \in 1..Len(regions) |-> regions[j].region]

\* C15: in a reserved operation folding a feed leaves every region entry
\* where it was and every offering of it where it was: the list of regions
\* and the instanceTypes of each only grow at the end; the regions of a
\* reserved document are in the order in which the feeds, taken in the
\* order of the URL list, first named them.
C15_AppendOnly ==
    /\ [][(pc = "fold" /\ operation = "reserved")
            => /\ Len(result_regions') >= Len(result_regions)
               /\ \A j \in 1..Len(result_regions) :
                     /\ result_regions'[j].region = result_regions[j].region
                     /\ Len(result_regions'[j].instanceTypes)
                            >= Len(result_regions[j].instanceTypes)
                     /\ SubSeq(result_regions'[j].instanceTypes, 1,
                               Len(result_regions[j].instanceTypes))
                            = result_regions[j].instanceTypes]_vars
    /\ [](\A i \in 1..Len(docs) :
             docs[i].operation = "reserved" =>
                LET fs == AnswersOf(docs[i])
                IN  NameSeq(docs[i].document.regions)
                      = FirstSeen(Flatten([k \in 1..Len(fs) |->
                                              NameSeq(Alone(fs[k]))], 1, Len(fs))))

\* a reserved operation has folded its second feed, which named a region
\* not seen before ahead of the region of the first feed: the old entry is
\* still first and has the offerings of both feeds, the new one follows
C15_Witness ==
    /\ operation = "reserved"
    /\ pc = "fetch"
    /\ Len(fetched) = 2
    /\ fetched[1].service = service
    /\ NameSeq(Alone(fetched[1])) # <<>>
    /\ Len(Alone(fetched[2])) = 2
    /\ Alone(fetched[2])[2].region = Alone(fetched[1])[1].region
    /\ Len(result_regions) = 2
    /\ result_regions[1].region = Alone(fetched[1])[1].region
    /\ Len(result_regions[1].instanceTypes) = 2
    /\ result_regions[2].region = Alone(fetched[2])[1].region


\* the URL lists of a normalizer operation as the source writes them, one
\* after the other
URL_LIST(svc, op) ==
    CASE svc = "ec2" /\ op = "reserved" -> EC2_reserved_urls
      [] svc = "ec2" /\ op = "ondemand" -> EC2_ondemand_urls
      [] svc = "elasticache" /\ op = "reserved" -> ELC_reserved_urls
      [] svc = "elasticache" /\ op = "ondemand" -> ELC_ondemand_urls
      [] svc = "rds" /\ op = "reserved" -> RDS_urls_old \o RDS_urls_new
      [] svc = "rds" /\ op = "ondemand" -> RDS_ondemand_urls
      [] svc = "redshift" /\ op = "reserved" -> RS_reserved_urls
      [] svc = "redshift" /\ op = "ondemand" -> RS_ondemand_urls

\* where u stands in a list
PositionIn(list, u) == CHOOSE i \in 1..Len(list) : list[i] = u

\* the feeds a normalizer operation has fetched, in the order fetched
FetchedBy(svc, op) ==
    SelectSeq(fetched, LAMBDA f : f.service = svc /\ f.operation = op)

\* the answer is no text, or a text that does not parse
Failed(f) == f.p = FETCH_ERROR \/ ~PARSED[f.p].ok

\* C16: no URL list names a feed twice; a normalizer operation fetches the
\* feeds of its list from the first on, each further down the list than the
\* one before; when a feed is fetched all feeds before it have been folded
\* and taken off the list, and the feed at hand is the one being folded;
\* a feed that could not be fetched or parsed is the last one fetched.
C16_FetchOrder ==
    /\ \A svc \in Range(SERVICES), op \in {"ondemand", "reserved"} :
          LET list == URL_LIST(svc, op)
              fs   == FetchedBy(svc, op)
          IN  /\ \A a, b \in 1..Len(list) : list[a] = list[b] => a = b
              /\ \A k \in 1..Len(fs) : \E a \in 1..Len(list) : list[a] = fs[k].u
              /\ fs # <<>> => fs[1].u = list[1]
              /\ \A k \in 1..(Len(fs) - 1) :
                    PositionIn(list, fs[k].u) < PositionIn(list, fs[k + 1].u)
    /\ pc = "fetch"
          => Len(urls) + Len(FetchedBy(service, operation))
                = Len(Feeds(service, operation))
    /\ pc = "fold"
          => /\ Len(urls) + Len(FetchedBy(service, operation))
                   = Len(Feeds(service, operation)) + 1
             /\ fetched[Len(fetched)].u = Head(urls).u
             /\ data = PARSED[fetched[Len(fetched)].p].val
    /\ \A k \in 1..Len(fetched) : Failed(fetched[k]) => k = Len(fetched)

\* the relational reserved operation has fetched the first feed of its old
\* list, folded it, fetched the last feed of that list and failed on it: the
\* feeds of the new list were never fetched
C16_Witness ==
    /\ call = [cls |-> "rds", u |-> "reserved"]
    /\ pc = "done"
    /\ outcome = "raised"
    /\ Len(fetched) = 2
    /\ fetched[1].u = RDS_urls_old[1]
    /\ fetched[2].u = RDS_urls_old[Len(RDS_urls_old)]
    /\ Failed(fetched[2])
    /\ Len(Feeds("rds", "reserved")) > 2


\* the new-scheme answers whose columns all carry a token in the currency
\* read and whose regions are as the loop reading them takes them
PRICED_V2 == {"ri_v2.east", "ri_v2.two", "ri_v2.na", "ri_v2.three"}

\* the monthlyStar and upfront columns of an answer whose token has no digit
NoDigitLeaves(p) ==
    {leaf \in Leaves(PARSED[p].val) :
        /\ leaf.term \in {"yrTerm1", "yrTerm3"}
        /\ leaf.name \in {"monthlyStar", "upfront"}
        /\ \A k \in 1..Len(leaf.tok) : leaf.tok[k] \notin Digits}

\* C17: a new-scheme reserved normalizer that has folded a feed with a
\* monthlyStar or upfront column whose token holds no digit has not raised,
\* and in its document the hourly or upfront cell of that column is null.
C17_NoDigitIsNull ==
    /\ (/\ Folded
        /\ fetched[Len(fetched)].kind \in NEW_SCHEME
        /\ fetched[Len(fetched)].p \in PRICED_V2
        /\ NoDigitLeaves(fetched[Len(fetched)].p) # {})
           => outcome # "raised"
    /\ \A i \in 1..Len(docs) :
          \A f \in Range(AnswersOf(docs[i])) :
             (f.kind \in NEW_SCHEME /\ f.p \in PRICED_V2) =>
                \A leaf \in NoDigitLeaves(f.p) :
                   \E o \in Range(OfferingsOf(docs[i].document.regions,
                                              leaf.region)) :
                      /\ o.type = leaf.type
                      /\ LET t    == IF leaf.term = "yrTerm1" THEN "1" ELSE "3"
                             cell == o.prices[t][leaf.option]
                         IN  IF leaf.name = "upfront" THEN cell.upfront.null
                             ELSE cell.hourly.null


\* the new-scheme answers all of whose monthlyStar tokens hold a number
NUMBERED_V2 == {"ri_v2.east", "ri_v2.two", "ri_v2.three"}

\* the (term, option) pairs the claim speaks of that an answer carries
PairsOf(p) ==
    {<<leaf.term, leaf.option>> :
        leaf \in {l \in Leaves(PARSED[p].val) :
                     /\ l.term \in {"yrTerm1", "yrTerm3"}
                     /\ l.option \in {"noUpfront", "partialUpfront",
                                      "allUpfront"}}}

\* C18: a new-scheme reserved normalizer (EC2, RDS new scheme, Redshift)
\* that has folded a feed carrying purchase options among noUpfront,
\* partialUpfront and allUpfront under terms among yrTerm1 and yrTerm3 has
\* not raised, and in its document every such cell holds what the columns
\* of the purchase option give: upfront as parsed, hourly the monthlyStar
\* value over 730.
C18_EveryOptionSet ==
    /\ (/\ Folded
        /\ fetched[Len(fetched)].kind \in NEW_SCHEME
        /\ fetched[Len(fetched)].p \in NUMBERED_V2
        /\ PairsOf(fetched[Len(fetched)].p) # {})
           => outcome # "raised"
    /\ \A i \in 1..Len(docs) :
          \A f \in Range(AnswersOf(docs[i])) :
             (f.kind \in NEW_SCHEME /\ f.p \in NUMBERED_V2) =>
                \A leaf \in Leaves(PARSED[f.p].val) :
                   <<leaf.term, leaf.option>> \in PairsOf(f.p) =>
                      \E o \in Range(OfferingsOf(docs[i].document.regions,
                                                 leaf.region)) :
                         /\ o.type = leaf.type
                         /\ LET t == IF leaf.term = "yrTerm1" THEN "1" ELSE "3"
                            IN  /\ leaf.option \in DOMAIN o.prices[t]
                                /\ leaf.name = "upfront" =>
                                      o.prices[t][leaf.option].upfront
                                          = parse_price(leaf.tok)
                                /\ leaf.name = "monthlyStar" =>
                                      o.prices[t][leaf.option].hourly
                                          = per_hour(parse_price(leaf.tok))


\* the legacy-scheme reserved normalizers
LEGACY_SCHEME == {"elc_reserved", "rds_reserved_old"}

\* the legacy answers that a legacy-scheme normalizer folds without raising
ROUTED_LEGACY == {"ri_legacy.east", "ri_legacy.two", "ri_legacy.alt"}

\* the price columns of a legacy feed, each with the region and the size
\* it stands under
LegacyLeaves(parsed) ==
    IF ~has_regions(parsed) THEN {}
    ELSE UNION {UNION {UNION {
            {[region |-> Text(r.v["region"]),
              size   |-> Text(s.v["size"]),
              name   |-> Text(c.v["name"]),
              tok    |-> c.v["prices"].v[DEFAULT_CURRENCY].v] :
                c \in ListAt(s, "valueColumns")} :
                s \in ListAt(it, "tiers")} :
                it \in ListAt(r, "instanceTypes")} :
                r \in ListAt(parsed.v["config"], "regions")}

\* the cell of a legacy prices dictionary that the claim gives a column name
RoutedCell(prices, name) ==
    CASE name = "yrTerm1" -> prices["1"].upfront
      [] name = "yrTerm3" -> prices["3"].upfront
      [] name \in {"yrTerm1Hourly", "yearTerm1Hourly"} -> prices["1"].hourly
      [] name \in {"yrTerm3Hourly", "yearTerm3Hourly"} -> prices["3"].hourly

\* C19: in the documents of the legacy-scheme reserved normalizers
\* (ElastiCache reserved, RDS old scheme), for every column of a feed named
\* yrTerm1, yrTerm3, yrTerm1Hourly, yearTerm1Hourly, yrTerm3Hourly or
\* yearTerm3Hourly the offering of its tier holds the parsed value of the
\* column in prices["1"].upfront, prices["3"].upfront, prices["1"].hourly
\* or prices["3"].hourly respectively.
C19_LegacyRouting ==
    \A i \in 1..Len(docs) :
       \A f \in Range(AnswersOf(docs[i])) :
          (f.kind \in LEGACY_SCHEME /\ f.p \in ROUTED_LEGACY) =>
             \A leaf \in LegacyLeaves(PARSED[f.p].val) :
                leaf.name \in {"yrTerm1", "yrTerm3", "yrTerm1Hourly",
                               "yearTerm1Hourly", "yrTerm3Hourly",
                               "yearTerm3Hourly"} =>
                   \E o \in Range(OfferingsOf(docs[i].document.regions,
                                     JSON_NAME_TO_REGIONS_API[leaf.region])) :
                      /\ o.type \in {leaf.size}
                            \cup {ELC_INSTANCE_TYPE_MAPPING[k] :
                                    k \in {leaf.size}
                                          \cap DOMAIN ELC_INSTANCE_TYPE_MAPPING}
                      /\ RoutedCell(o.prices, leaf.name) = parse_price(leaf.tok)


\* the instance-type lookup table of a service
TypeTable(svc) ==
    IF svc = "elasticache" THEN ELC_INSTANCE_TYPE_MAPPING
    ELSE RDS_INSTANCE_TYPE_MAPPING

\* the instance-class tokens of an answer: the name of a tier of an
\* on-demand feed, the size of a tier of a legacy reserved feed, the type of
\* an instance entry of a new-scheme reserved feed
TypeTokens(f) ==
    LET parsed == PARSED[f.p].val
        regions == IF has_regions(parsed)
                   THEN ListAt(parsed.v["config"], "regions") ELSE {}
    IN  CASE SHAPE[f.kind] = "od_types" ->
               UNION {UNION {{Text(s.v["name"]) : s \in ListAt(t, "tiers")} :
                          t \in ListAt(r, "types")} : r \in regions}
          [] SHAPE[f.kind] = "ri_legacy" ->
               UNION {UNION {{Text(s.v["size"]) : s \in ListAt(it, "tiers")} :
                          it \in ListAt(r, "instanceTypes")} : r \in regions}
          [] OTHER ->
               UNION {{Text(it.v["type"]) : it \in ListAt(r, "instanceTypes")} :
                          r \in regions}

\* the types stored in a document
StoredTypes(document) ==
    UNION {{o.type : o \in Range(document.regions[j].instanceTypes)} :
              j \in 1..Len(document.regions)}

\* C20: a document of the ElastiCache or the RDS normalizers exists only if
\* every instance-class token of the feeds it was made from is a key of the
\* service's INSTANCE_TYPE_MAPPING, and the document stores the table's
\* value for each such token as a type.
C20_TypesResolved ==
    \A i \in 1..Len(docs) :
       docs[i].service \in {"elasticache", "rds"} =>
          \A f \in Range(AnswersOf(docs[i])) :
             \A token_ \in TypeTokens(f) :
                /\ token_ \in DOMAIN TypeTable(docs[i].service)
                /\ TypeTable(docs[i].service)[token_]
                      \in StoredTypes(docs[i].document)

\* C21: a feed made of a comment block, a text and a second comment block
\* is repaired to the text between the two comments: load_data does not
\* fail on it and hands the loop the data of that text.
C21_CommentsEachOnItsOwn ==
    (fetched # <<>> /\ fetched[Len(fetched)].p = "two_comments")
        => /\ strip_comments(Chars(FEED_TEXT["two_comments"]))
                 = Chars(BETWEEN_COMMENTS)
           /\ outcome # "raised"
           /\ pc = "fold" => data = load_data(Chars(BETWEEN_COMMENTS)).val


\* the two feed tables, single-AZ and multi-AZ, of an RDS loop
RDS_TABLES ==
    ("rds_ondemand" :> <<RDS_ONDEMAND_TYPE_BY_URL,
                         RDS_ONDEMAND_MULTIAZ_TYPE_BY_URL>>) @@
    ("rds_reserved_new" :> <<RDS_RESERVED_TYPE_BY_URL_NEW,
                             RDS_RESERVED_MULTIAZ_TYPE_BY_URL_NEW>>)

\* the URL list of an RDS loop
RDS_LISTS ==
    ("rds_ondemand" :> RDS_ondemand_urls) @@ ("rds_reserved_new" :> RDS_urls_new)

\* the offerings the loop body makes of one answer
OfferingsFrom(f) ==
    LET alone == Alone(f)
    IN  UNION {Range(alone[j].instanceTypes) : j \in 1..Len(alone)}

\* C22: every URL of the RDS on-demand list and of the RDS new-scheme
\* reserved list is a key of exactly one of the two tables of its loop, and
\* in an RDS document every offering made from a feed of these loops has
\* multiaz "single" with the license and db of the single-AZ table when that
\* table holds the feed's URL, and "multi-az" with those of the multi-AZ
\* table when that one does.
C22_MultiazByTable ==
    /\ \A kind \in DOMAIN RDS_TABLES :
          \A k \in 1..Len(RDS_LISTS[kind]) :
             (RDS_LISTS[kind][k] \in DOMAIN RDS_TABLES[kind][1])
                # (RDS_LISTS[kind][k] \in DOMAIN RDS_TABLES[kind][2])
    /\ \A i \in 1..Len(docs) :
          \A f \in Range(AnswersOf(docs[i])) :
             f.kind \in DOMAIN RDS_TABLES =>
                \A o \in OfferingsFrom(f) :
                   /\ \E e \in Range(docs[i].document.regions) :
                         o \in Range(e.instanceTypes)
                   /\ f.u \in DOMAIN RDS_TABLES[f.kind][1] =>
                         <<o.multiaz, o.license, o.db>>
                            = <<"single">> \o RDS_TABLES[f.kind][1][f.u]
                   /\ f.u \in DOMAIN RDS_TABLES[f.kind][2] =>
                         <<o.multiaz, o.license, o.db>>
                            = <<"multi-az">> \o RDS_TABLES[f.kind][2][f.u]

\* an RDS on-demand document holds a single-AZ MySQL offering and a
\* multi-AZ PostgreSQL offering
C22_Witness ==
    \E i \in 1..Len(docs) :
       /\ docs[i].service = "rds"
       /\ docs[i].operation = "ondemand"
       /\ \E e1, e2 \in Range(docs[i].document.regions) :
             /\ \E o \in Range(e1.instanceTypes) :
                   <<o.multiaz, o.license, o.db>> = <<"single", "gpl", "mysql">>
             /\ \E o \in Range(e2.instanceTypes) :
                   <<o.multiaz, o.license, o.db>>
                      = <<"multi-az", "postgresql", "postgres">>


\* the offerings of a document
AllOfferings(document) ==
    UNION {Range(document.regions[j].instanceTypes) :
              j \in 1..Len(document.regions)}

\* C23: every offering of an EC2 reserved document has a field utilization,
\* and all of them hold the same value.
C23_UtilizationConstant ==
    \A i \in 1..Len(docs) :
       (docs[i].service = "ec2" /\ docs[i].operation = "reserved") =>
          /\ \A o \in AllOfferings(docs[i].document) : "utilization" \in DOMAIN o
          /\ \A o1, o2 \in AllOfferings(docs[i].document) :
                ("utilization" \in DOMAIN o1 /\ "utilization" \in DOMAIN o2)
                   => o1.utilization = o2.utilization


\* the sum of count(x) over the elements of xs
RECURSIVE Sum(_, _)
Sum(count(_), xs) == IF xs = <<>> THEN 0 ELSE count(Head(xs)) + Sum(count, Tail(xs))

\* the keys of the instance list and of the tier list in an on-demand feed
OD_KEYS ==
    ("od_sizes" :> <<"instanceTypes", "sizes">>) @@
    ("od_tiers" :> <<"instanceTypes", "tiers">>) @@
    ("od_types" :> <<"types", "tiers">>)

\* the list under a key, empty without the key
SeqAt(d, key) == IF Has(d, key) THEN Items(d.v[key]) ELSE <<>>

\* the number of (region, tier) pairs of an on-demand answer
TierPairs(f) ==
    LET keys == OD_KEYS[SHAPE[f.kind]]
    IN  IF ~has_regions(PARSED[f.p].val) THEN 0
        ELSE Sum(LAMBDA r :
                     IF ~has_region_id(r) THEN 0
                     ELSE Sum(LAMBDA it : Len(SeqAt(it, keys[2])),
                              SeqAt(r, keys[1])),
                 Items(PARSED[f.p].val.v["config"].v["regions"]))

\* C24 as stated: in an on-demand document the loop body has made of every
\* feed as many offerings as the feed has (region, tier) pairs.
C24_OnePerTier ==
    \A i \in 1..Len(docs) :
       docs[i].operation = "ondemand" =>
          \A f \in Range(AnswersOf(docs[i])) :
             Sum(LAMBDA e : Len(e.instanceTypes), Alone(f)) = TierPairs(f)

\* the number of (region, tier, price column) triples of an on-demand answer
ColumnTriples(f) ==
    LET keys == OD_KEYS[SHAPE[f.kind]]
    IN  IF ~has_regions(PARSED[f.p].val) THEN 0
        ELSE Sum(LAMBDA r :
                     IF ~has_region_id(r) THEN 0
                     ELSE Sum(LAMBDA it :
                                  Sum(LAMBDA s : Len(SeqAt(s, "valueColumns")),
                                      SeqAt(it, keys[2])),
                              SeqAt(r, keys[1])),
                 Items(PARSED[f.p].val.v["config"].v["regions"]))

\* C24 amended: in an on-demand document of ElastiCache or RDS the loop body
\* has made of every feed as many offerings as the feed has (region, tier)
\* pairs; in one of EC2 or Redshift, as many as the feed has (region, tier,
\* price column) triples.
C24_OnePerTierOrColumn ==
    \A i \in 1..Len(docs) :
       docs[i].operation = "ondemand" =>
          \A f \in Range(AnswersOf(docs[i])) :
             Sum(LAMBDA e : Len(e.instanceTypes), Alone(f))
                = IF docs[i].service \in {"elasticache", "rds"}
                  THEN TierPairs(f) ELSE ColumnTriples(f)

\* an EC2 on-demand document is returned that holds the three offerings of
\* a feed with two sizes, one of which has two price columns
C24_Witness ==
    \E i \in 1..Len(docs) :
       /\ docs[i].service = "ec2"
       /\ docs[i].operation = "ondemand"
       /\ \E f \in Range(AnswersOf(docs[i])) :
             /\ TierPairs(f) = 2
             /\ ColumnTriples(f) = 3
             /\ Sum(LAMBDA e : Len(e.instanceTypes), Alone(f)) = 3
       /\ Cardinality(AllOfferings(docs[i].document)) >= 3

ALL_OPTIONS == {"noUpfront", "partialUpfront", "allUpfront"}

\* prices has the terms "1" and "3", each with hourly and upfront
IsLegacyTemplate(prices) ==
    /\ DOMAIN prices = {"1", "3"}
    /\ \A t \in DOMAIN prices : DOMAIN prices[t] = {"hourly", "upfront"}

\* prices has the terms "1" and "3" with the payment options opts1 and
\* opts3, each with hourly and upfront
IsOptionTemplate(prices, opts1, opts3) ==
    /\ DOMAIN prices = {"1", "3"}
    /\ DOMAIN prices["1"] = opts1
    /\ DOMAIN prices["3"] = opts3
    /\ \A t \in DOMAIN prices : \A po \in DOMAIN prices[t] :
          DOMAIN prices[t][po] = {"hourly", "upfront"}

\* prices has the key structure of the template of a reserved loop
HasTemplate(kind, prices) ==
    CASE kind = "ec2_reserved" ->
            IsOptionTemplate(prices, ALL_OPTIONS, {"partialUpfront", "allUpfront"})
      [] kind \in {"rds_reserved_new", "rs_reserved"} ->
            IsOptionTemplate(prices, ALL_OPTIONS, ALL_OPTIONS)
      [] kind \in {"elc_reserved", "rds_reserved_old"} ->
            IsLegacyTemplate(prices)

\* the reserved loops of a service
RESERVED_KINDS ==
    ("ec2" :> {"ec2_reserved"}) @@ ("elasticache" :> {"elc_reserved"}) @@
    ("rds" :> {"rds_reserved_old", "rds_reserved_new"}) @@
    ("redshift" :> {"rs_reserved"})

\* C25: during a reserved operation and in every reserved document the
\* prices of each offering have the key structure of a template of the
\* service, and the offerings made from a feed that of the feed's loop: EC2
\* term "1" with the three payment options and term "3" with partialUpfront
\* and allUpfront; RDS new scheme and Redshift the three options under both
\* terms; the legacy loops terms "1" and "3" each with hourly and upfront.
C25_PricesTemplate ==
    /\ operation = "reserved" =>
          \A j \in 1..Len(result_regions) :
             \A o \in Range(result_regions[j].instanceTypes) :
                \E kind \in RESERVED_KINDS[service] : HasTemplate(kind, o.prices)
    /\ \A i \in 1..Len(docs) :
          docs[i].operation = "reserved" =>
             /\ \A o \in AllOfferings(docs[i].document) :
                   \E kind \in RESERVED_KINDS[docs[i].service] :
                      HasTemplate(kind, o.prices)
             /\ \A f \in Range(AnswersOf(docs[i])) :
                   \A o \in OfferingsFrom(f) : HasTemplate(f.kind, o.prices)

\* an EC2 reserved document holds an offering whose cells a feed has set,
\* under term "3" and under term "1"
C25_Witness ==
    \E i \in 1..Len(docs) :
       /\ docs[i].service = "ec2"
       /\ docs[i].operation = "reserved"
       /\ \E o \in AllOfferings(docs[i].document) :
             ~o.prices["3"]["partialUpfront"].hourly.null
       /\ \E o \in AllOfferings(docs[i].document) :
             ~o.prices["1"]["noUpfront"].hourly.null


\* the arguments save_csv of a class knows
KnownCsv ==
    call.u \in (IF call.cls = "all" THEN {"ondemand", "reserved", "all"}
                ELSE {"ondemand", "reserved"})

\* C26: save_csv of every class touches its output file only when every
\* normalizer call it makes has returned its document, none having raised;
\* after a feed that could not be fetched or parsed, and for an argument
\* that is not known, the file is as it was before the call.
C26_FileAfterNormalizers ==
    /\ [][file' # file =>
             /\ KnownCsv
             /\ outcome = "none"
             /\ pending = <<>>
             /\ Len(docs) = Len(Calls(call.cls, call.u))
             /\ \A i \in 1..Len(docs) :
                   <<docs[i].service, docs[i].operation>>
                      = <<Calls(call.cls, call.u)[i].service,
                          Calls(call.cls, call.u)[i].operation>>]_vars
    /\ []((outcome = "raised" \/ ~KnownCsv) => file = <<>>)

\* save_csv of the Aggregator fails on a feed after a normalizer has
\* returned its document, and there is no file
C26_Witness ==
    /\ call.cls = "all"
    /\ outcome = "raised"
    /\ error \in {"URLError", "ValueError"}
    /\ docs # <<>>
    /\ file = <<>>


\* the region that "bare_regions" names in an entry without instance list;
\* it is its own canonical id, and no other text served names it
BARE_REGION == "us-west-2"

\* the entries of a document for the region R
EntriesFor(document, R) ==
    SelectSeq(document.regions, LAMBDA e : e.region = R)

\* C27: a feed with a region entry that has an id but no instance list, one
\* with an empty id and one without id does not make the loop fail; an
\* on-demand document gets no entry from it, a reserved document exactly one
\* entry, for the region with the id, with no offerings.
C27_BareRegionEntries ==
    /\ (Folded /\ fetched[Len(fetched)].p = "bare_regions") => outcome # "raised"
    /\ \A i \in 1..Len(docs) :
          (\E f \in Range(AnswersOf(docs[i])) : f.p = "bare_regions") =>
             /\ EntriesFor(docs[i].document, "") = <<>>
             /\ IF docs[i].operation = "ondemand"
                THEN EntriesFor(docs[i].document, BARE_REGION) = <<>>
                ELSE EntriesFor(docs[i].document, BARE_REGION)
                        = <<[region |-> BARE_REGION, instanceTypes |-> <<>>]>>

\* a reserved document holds the empty entry of such a feed next to the
\* entry of another feed
C27_Witness ==
    \E i \in 1..Len(docs) :
       /\ \E f \in Range(AnswersOf(docs[i])) : f.p = "bare_regions"
       /\ docs[i].operation = "reserved"
       /\ Len(docs[i].document.regions) = 2
       /\ EntriesFor(docs[i].document, BARE_REGION) # <<>>


\* C28: the values of JSON_NAME_TO_REGIONS_API are the ids of REGIONS, every
\* id of REGIONS is a key that maps to itself, resolving a resolved id gives
\* it back, and the regions of an ElastiCache document, which the table has
\* resolved, are ids of REGIONS that the table gives back unchanged.
C28_RegionTableClosed ==
    /\ {JSON_NAME_TO_REGIONS_API[k] : k \in DOMAIN JSON_NAME_TO_REGIONS_API}
          = Range(REGIONS)
    /\ \A R \in Range(REGIONS) :
          R \in DOMAIN JSON_NAME_TO_REGIONS_API /\ JSON_NAME_TO_REGIONS_API[R] = R
    /\ \A k \in DOMAIN JSON_NAME_TO_REGIONS_API :
          JSON_NAME_TO_REGIONS_API[JSON_NAME_TO_REGIONS_API[k]]
             = JSON_NAME_TO_REGIONS_API[k]
    /\ \A i \in 1..Len(docs) :
          docs[i].service = "elasticache" =>
             \A e \in Range(docs[i].document.regions) :
                /\ e.region \in Range(REGIONS)
                /\ JSON_NAME_TO_REGIONS_API[e.region] = e.region

\* an ElastiCache document holds the region us-east-1 of a feed that names
\* it us-east
C28_Witness ==
    \E i \in 1..Len(docs) :
       /\ docs[i].service = "elasticache"
       /\ \E f \in Range(AnswersOf(docs[i])) :
             f.p \in {"od_types.east", "ri_legacy.east"}
       /\ \E e \in Range(docs[i].document.regions) :
             e.region = "us-east-1" /\ e.instanceTypes # <<>>


\* the positions of a list of offerings that hold a legacy offering
LegacyAt(its) == {a \in 1..Len(its) : IsLegacyTemplate(its[a].prices)}

\* in a list of RegionPricing entries every legacy offering of a region
\* stands before every new-scheme offering of it
LegacyFirst(regions) ==
    \A j \in 1..Len(regions) :
       \A a \in LegacyAt(regions[j].instanceTypes) :
          \A b \in (1..Len(regions[j].instanceTypes))
                      \ LegacyAt(regions[j].instanceTypes) : a < b

\* C29: in the RDS reserved operation no legacy feed is fetched after a
\* new-scheme feed; at every point of the operation and in its document
\* the legacy offerings of a region precede its new-scheme offerings; and a
\* region that a legacy feed names by a token the table resolves to C and a
\* new-scheme feed names C has one RegionPricing in the document, which
\* holds the offerings of both feeds.
C29_LegacyBeforeNew ==
    /\ \A a, b \in 1..Len(fetched) :
          (/\ a < b
           /\ fetched[a].service = "rds" /\ fetched[a].operation = "reserved"
           /\ fetched[b].service = "rds" /\ fetched[b].operation = "reserved")
             => ~(fetched[a].kind = "rds_reserved_new"
                  /\ fetched[b].kind = "rds_reserved_old")
    /\ (service = "rds" /\ operation = "reserved") => LegacyFirst(result_regions)
    /\ \A i \in 1..Len(docs) :
          (docs[i].service = "rds" /\ docs[i].operation = "reserved") =>
             /\ LegacyFirst(docs[i].document.regions)
             /\ \A f, g \in Range(AnswersOf(docs[i])) :
                   (f.kind = "rds_reserved_old" /\ g.kind = "rds_reserved_new") =>
                      \A C \in NamesOf(Alone(f)) \cap NamesOf(Alone(g)) :
                         /\ Len(EntriesFor(docs[i].document, C)) = 1
                         /\ \A o \in OfferingsFrom(f) \cup OfferingsFrom(g) :
                               o \in Range(EntriesFor(docs[i].document, C)[1]
                                              .instanceTypes)
                               \/ \E e \in Range(docs[i].document.regions) :
                                     e.region # C /\ o \in Range(e.instanceTypes)

\* an RDS reserved document has one entry for us-east-1 that holds the
\* offering of a legacy feed naming us-east and the offering of a
\* new-scheme feed naming us-east-1
C29_Witness ==
    \E i \in 1..Len(docs) :
       /\ docs[i].service = "rds"
       /\ docs[i].operation = "reserved"
       /\ \E f, g \in Range(AnswersOf(docs[i])) :
             f.p = "ri_legacy.east" /\ g.p = "ri_v2.canon"
       /\ Len(EntriesFor(docs[i].document, "us-east-1")) = 1
       /\ LET its == EntriesFor(docs[i].document, "us-east-1")[1].instanceTypes
          IN  /\ LegacyAt(its) # {}
              /\ LegacyAt(its) # 1..Len(its)


\* C30: at every point of a reserved operation the keys of
\* result_regions_index are the region values of result_regions, and the
\* entry the index refers to under R is the entry of result_regions named R;
\* every offering made from a feed of a reserved document is in the document.
C30_IndexAgrees ==
    /\ operation = "reserved" =>
          /\ DOMAIN result_regions_index = NamesOf(result_regions)
          /\ \A R \in DOMAIN result_regions_index :
                /\ result_regions_index[R] \in 1..Len(result_regions)
                /\ result_regions[result_regions_index[R]].region = R
                /\ \A j \in 1..Len(result_regions) :
                      result_regions[j].region = R => j = result_regions_index[R]
    /\ \A i \in 1..Len(docs) :
          docs[i].operation = "reserved" =>
             LET held == AllOfferings(docs[i].document)
             IN  \A f \in Range(AnswersOf(docs[i])) :
                    OfferingsFrom(f) \subseteq held

\* in the middle of a reserved operation, feeds still to come, the index
\* has two regions and one of them holds offerings of two feeds
C30_Witness ==
    /\ operation = "reserved"
    /\ pc = "fetch"
    /\ urls # <<>>
    /\ Cardinality(DOMAIN result_regions_index) = 2
    /\ \E j \in 1..Len(result_regions) : Len(result_regions[j].instanceTypes) >= 2


=============================================================================
